---- MODULE Spec2Model ----
(***************************************************************************)
(* Model of the education database of next-step-learning-analytics         *)
(* (backend/scripts/init_db.sql): the five tables with their constraints,  *)
(* the views v_course_summary and v_dropout_by_segment, the function       *)
(* analyze_course_dropout, and the frontend API client's read of the       *)
(* danger zones (analysisApi.getDangerZones).                              *)
(*                                                                         *)
(* Conventions.  A nullable SQL value is a tuple: NULL is <<>> and the     *)
(* value v is <<v>>.  progress_percent is held in whole percents.  A       *)
(* NUMERIC rounded to two decimals is held in hundredths (20.00 is 2000).  *)
(* Every statement leaves its outcome in the variable result.  user_id and *)
(* course_id columns are NOT NULL and are given as plain ids.              *)
(***************************************************************************)
EXTENDS Integers, Sequences, FiniteSets, TLC

VARIABLES users, courses, enrollments, learning_logs, dropout_analyses,
          result,
          \* the frontend: the state of a useApi hook, the execute calls of
          \* the hook that await their API function, the execute call that
          \* was started last, and the fetchApi calls that await the network
          state, calls, lastCall, requests,
          \* the page on screen: the useState fields of its component, and
          \* the API calls of its handlers that await their response
          page, pending

tables == <<users, courses, enrollments, learning_logs, dropout_analyses>>
hooks == <<state, calls, lastCall, requests>>
pages == <<page, pending>>
frontend == <<state, calls, lastCall, requests, page, pending>>
vars == <<users, courses, enrollments, learning_logs, dropout_analyses, result,
          state, calls, lastCall, requests, page, pending>>

\* ---------------------------------------------------------------------
\* Bounds of the model
\* ---------------------------------------------------------------------
\* Rows a table holds at a time.
MaxEnrollments == 2
MaxLogs == 1
MaxAnalyses == 1

\* ---------------------------------------------------------------------
\* SQL values
\* ---------------------------------------------------------------------
NULL == <<>>
Some(v) == <<v>>
Val(x) == x[1]
IsTrue(b) == b # NULL /\ Val(b) = TRUE

Max(S) == CHOOSE m \in S : \A x \in S : x <= m

\* ROUND(num / den, 0) of two non-negative integers, halves away from zero.
RoundDiv(num, den) == (2 * num + den) \div (2 * den)

\* The id of a new row.  Nothing reads the value of an id, so a new row is
\* named by the least id of 1..max no row of the table uses; the set is
\* empty when the table is full.
NewId(rows, max) ==
    LET free == {i \in 1..max : \A r \in rows : r.id # i}
    IN  {i \in free : \A j \in free : i <= j}

\* ---------------------------------------------------------------------
\* Column constraints
\* ---------------------------------------------------------------------
\* CHECK (progress_percent >= 0 AND progress_percent <= 100); a CHECK is
\* violated only when it evaluates to FALSE, so NULL passes it.
check_progress_range(p) == p = NULL \/ (Val(p) >= 0 /\ Val(p) <= 100)
\* check_log_progress_range without its upper limit.
check_log_progress_range_Mutant(p) == p = NULL \/ Val(p) >= 0

check_log_progress_range(p) == p = NULL \/ (Val(p) >= 0 /\ Val(p) <= 100)
check_watch_duration_positive(w) == w = NULL \/ Val(w) >= 0

\* unique_user_course as a constraint on user_id alone would be.
unique_user_course_Mutant(id, u, c) ==
    \A e \in enrollments : e.id # id => e.user_id # u \/ e.course_id = c

\* UNIQUE (user_id, course_id), checked for the row `id` holding (u, c).
unique_user_course(id, u, c) ==
    \A e \in enrollments : e.id # id => ~(e.user_id = u /\ e.course_id = c)

\* REFERENCES users(id) / courses(id)
fk_user(u) == u \in users
fk_course(c) == \E k \in courses : k.id = c

\* useState<UseApiState<T>>({ data: null, loading: false, error: null })
InitialState == [data |-> NULL, loading |-> FALSE, error |-> NULL]

\* The hook and the API client before any call is made.
InitHooks ==
    /\ state = InitialState
    /\ calls = {}
    /\ lastCall = NULL
    /\ requests = {}

\* No page component is mounted.
NoPage == [name |-> "none"]

\* The frontend before any call is made.
InitFrontend ==
    /\ InitHooks
    /\ page = NoPage
    /\ pending = {}

Init ==
    /\ users = {}
    /\ courses = {}
    /\ enrollments = {}
    /\ learning_logs = {}
    /\ dropout_analyses = {}
    /\ result = [stmt |-> "none", status |-> "ok"]
    /\ InitFrontend

Ok(stmt) == [stmt |-> stmt, status |-> "ok"]
Rejected(stmt, why) == [stmt |-> stmt, status |-> "error", constraint |-> why]
\* A delete of a referenced row; cascade is the number of referencing rows
\* ON DELETE CASCADE removed with it.
Deleted(stmt, n) == [stmt |-> stmt, status |-> "ok", cascade |-> n]

\* ---------------------------------------------------------------------
\* users and courses
\* ---------------------------------------------------------------------
\* INSERT INTO users (id, ...) VALUES (u, ...)
InsertUser(u) ==
    /\ u \notin users
    /\ users' = users \cup {u}
    /\ result' = Ok("insert users")
    /\ UNCHANGED <<courses, enrollments, learning_logs, dropout_analyses, frontend>>

\* DeleteUser as it would be if learning_logs.user_id did not reference
\* users(id): the logs of the user stay.
DeleteUser_Mutant(u) ==
    /\ u \in users
    /\ users' = users \ {u}
    /\ enrollments' = {e \in enrollments : e.user_id # u}
    /\ result' = [stmt |-> "delete users", status |-> "ok",
                  cascade |-> Cardinality({e \in enrollments : e.user_id = u})]
    /\ UNCHANGED <<courses, learning_logs, dropout_analyses, frontend>>

\* DELETE FROM users WHERE id = u, with ON DELETE CASCADE to enrollments
\* and learning_logs.
DeleteUser(u) ==
    /\ u \in users
    /\ users' = users \ {u}
    /\ enrollments' = {e \in enrollments : e.user_id # u}
    /\ learning_logs' = {l \in learning_logs : l.user_id # u}
    /\ result' = Deleted("delete users",
            Cardinality({e \in enrollments : e.user_id = u})
            + Cardinality({l \in learning_logs : l.user_id = u}))
    /\ UNCHANGED <<courses, dropout_analyses, frontend>>

\* INSERT INTO courses (id, is_active, ...) VALUES (c, active, ...)
InsertCourse(c, active) ==
    /\ ~fk_course(c)
    /\ courses' = courses \cup {[id |-> c, is_active |-> active]}
    /\ result' = Ok("insert courses")
    /\ UNCHANGED <<users, enrollments, learning_logs, dropout_analyses, frontend>>

\* DELETE FROM courses WHERE id = c, with ON DELETE CASCADE to enrollments,
\* learning_logs and dropout_analyses.
DeleteCourse(c) ==
    /\ fk_course(c)
    /\ courses' = {k \in courses : k.id # c}
    /\ enrollments' = {e \in enrollments : e.course_id # c}
    /\ learning_logs' = {l \in learning_logs : l.course_id # c}
    /\ dropout_analyses' = {a \in dropout_analyses : a.course_id # c}
    /\ result' = Deleted("delete courses",
            Cardinality({e \in enrollments : e.course_id = c})
            + Cardinality({l \in learning_logs : l.course_id = c})
            + Cardinality({a \in dropout_analyses : a.course_id = c}))
    /\ UNCHANGED <<users, frontend>>

\* ---------------------------------------------------------------------
\* enrollments
\* ---------------------------------------------------------------------
\* The first constraint a candidate enrollments row violates, or "none".
\* user_id and course_id are NOT NULL and are given as plain ids.
EnrollmentViolation(id, u, c, p) ==
    IF ~check_progress_range(p) THEN "check_progress_range"
    ELSE IF ~unique_user_course(id, u, c) THEN "unique_user_course"
    ELSE IF ~fk_user(u) THEN "enrollments_user_id_fkey"
    ELSE IF ~fk_course(c) THEN "enrollments_course_id_fkey"
    ELSE "none"

\* INSERT INTO enrollments (user_id, course_id, status, progress_percent)
InsertEnrollment(id, u, c, s, p) ==
    LET why == EnrollmentViolation(id, u, c, p)
    IN  /\ \A e \in enrollments : e.id # id
        /\ IF why = "none"
           THEN /\ enrollments' = enrollments \cup
                      {[id |-> id, user_id |-> u, course_id |-> c,
                        status |-> s, progress_percent |-> p]}
                /\ result' = Ok("insert enrollments")
           ELSE /\ enrollments' = enrollments
                /\ result' = Rejected("insert enrollments", why)
        /\ UNCHANGED <<users, courses, learning_logs, dropout_analyses, frontend>>

\* UPDATE enrollments SET user_id, course_id, status, progress_percent
\* WHERE id = id
UpdateEnrollment(id, u, c, s, p) ==
    LET why == EnrollmentViolation(id, u, c, p)
    IN  /\ \E e \in enrollments : e.id = id
        /\ IF why = "none"
           THEN /\ enrollments' = {e \in enrollments : e.id # id} \cup
                      {[id |-> id, user_id |-> u, course_id |-> c,
                        status |-> s, progress_percent |-> p]}
                /\ result' = Ok("update enrollments")
           ELSE /\ enrollments' = enrollments
                /\ result' = Rejected("update enrollments", why)
        /\ UNCHANGED <<users, courses, learning_logs, dropout_analyses, frontend>>

DeleteEnrollment(id) ==
    /\ \E e \in enrollments : e.id = id
    /\ enrollments' = {e \in enrollments : e.id # id}
    /\ result' = Ok("delete enrollments")
    /\ UNCHANGED <<users, courses, learning_logs, dropout_analyses, frontend>>

\* ---------------------------------------------------------------------
\* learning_logs
\* ---------------------------------------------------------------------
\* The first constraint a candidate learning_logs row violates, or "none".
LogViolation(u, c, p, w) ==
    IF p = NULL THEN "progress_percent_not_null"
    ELSE IF w = NULL THEN "watch_duration_sec_not_null"
    ELSE IF ~check_log_progress_range(p) THEN "check_log_progress_range"
    ELSE IF ~check_watch_duration_positive(w) THEN "check_watch_duration_positive"
    ELSE IF ~fk_user(u) THEN "learning_logs_user_id_fkey"
    ELSE IF ~fk_course(c) THEN "learning_logs_course_id_fkey"
    ELSE "none"

\* INSERT INTO learning_logs (user_id, course_id, progress_percent,
\* watch_duration_sec, is_dropout)
InsertLog(id, u, c, p, w, d) ==
    LET why == LogViolation(u, c, p, w)
    IN  /\ \A l \in learning_logs : l.id # id
        /\ IF why = "none"
           THEN /\ learning_logs' = learning_logs \cup
                      {[id |-> id, user_id |-> u, course_id |-> c,
                        progress_percent |-> p, watch_duration_sec |-> w,
                        is_dropout |-> d]}
                /\ result' = Ok("insert learning_logs")
           ELSE /\ learning_logs' = learning_logs
                /\ result' = Rejected("insert learning_logs", why)
        /\ UNCHANGED <<users, courses, enrollments, dropout_analyses, frontend>>

\* UPDATE learning_logs SET progress_percent, watch_duration_sec, is_dropout
\* WHERE id = id
UpdateLog(id, p, w, d) ==
    /\ \E l \in learning_logs : l.id = id
    /\ LET old == CHOOSE l \in learning_logs : l.id = id
           why == LogViolation(old.user_id, old.course_id, p, w)
       IN  IF why = "none"
           THEN /\ learning_logs' = (learning_logs \ {old}) \cup
                      {[old EXCEPT !.progress_percent = p,
                                   !.watch_duration_sec = w,
                                   !.is_dropout = d]}
                /\ result' = Ok("update learning_logs")
           ELSE /\ learning_logs' = learning_logs
                /\ result' = Rejected("update learning_logs", why)
    /\ UNCHANGED <<users, courses, enrollments, dropout_analyses, frontend>>

DeleteLog(id) ==
    /\ \E l \in learning_logs : l.id = id
    /\ learning_logs' = {l \in learning_logs : l.id # id}
    /\ result' = Ok("delete learning_logs")
    /\ UNCHANGED <<users, courses, enrollments, dropout_analyses, frontend>>

\* ---------------------------------------------------------------------
\* dropout_analyses
\* ---------------------------------------------------------------------
\* INSERT INTO dropout_analyses (course_id, segment_start, segment_end)
InsertAnalysis(id, c, s) ==
    /\ \A a \in dropout_analyses : a.id # id
    /\ IF fk_course(c)
       THEN /\ dropout_analyses' = dropout_analyses \cup
                  {[id |-> id, course_id |-> c, segment_start |-> s,
                    segment_end |-> s + 10]}
            /\ result' = Ok("insert dropout_analyses")
       ELSE /\ dropout_analyses' = dropout_analyses
            /\ result' = Rejected("insert dropout_analyses",
                                  "dropout_analyses_course_id_fkey")
    /\ UNCHANGED <<users, courses, enrollments, learning_logs, frontend>>

DeleteAnalysis(id) ==
    /\ \E a \in dropout_analyses : a.id = id
    /\ dropout_analyses' = {a \in dropout_analyses : a.id # id}
    /\ result' = Ok("delete dropout_analyses")
    /\ UNCHANGED <<users, courses, enrollments, learning_logs, frontend>>

\* ---------------------------------------------------------------------
\* analyze_course_dropout(p_course_id)
\* ---------------------------------------------------------------------
\* WITH user_max_progress AS (SELECT user_id, MAX(progress_percent) ...
\* FROM learning_logs WHERE course_id = p_course_id GROUP BY user_id)
user_max_progress(p_course_id) ==
    LET logs == {l \in learning_logs : l.course_id = p_course_id}
    IN  {[user_id |-> u,
          max_progress |->
              Max({Val(l.progress_percent) : l \in {k \in logs : k.user_id = u}})]
         : u \in {l.user_id : l \in logs}}

\* segments AS (SELECT generate_series(0, 90, 10) AS seg_start)
segments == [i \in 1..10 |-> (i - 1) * 10]

\* CASE WHEN l.is_dropout = TRUE AND l.progress_percent >= s.seg_start AND
\* l.progress_percent < s.seg_start + 10 THEN l.user_id END is not NULL.
CountsAsDropout(l, seg_start) ==
    /\ IsTrue(l.is_dropout)
    /\ Val(l.progress_percent) >= seg_start
    /\ Val(l.progress_percent) < seg_start + 10

\* segment_analysis_row joining only the users whose maximum lies in the band.
segment_analysis_row_BandMutant(p_course_id, seg_start) ==
    LET reached == {u \in user_max_progress(p_course_id) :
                        u.max_progress >= seg_start
                        /\ u.max_progress < seg_start + 10}
        joined == {<<u, l>> \in reached \X learning_logs :
                        l.user_id = u.user_id /\ l.course_id = p_course_id}
    IN  [seg_start |-> seg_start,
         seg_end |-> seg_start + 10,
         users_reached |-> Cardinality({u.user_id : u \in reached}),
         dropouts |-> Cardinality(
             {j[2].user_id : j \in
                 {k \in joined : CountsAsDropout(k[2], seg_start)}})]

\* segment_analysis_row with COUNT(CASE ...) in place of COUNT(DISTINCT CASE ...).
segment_analysis_row_CountMutant(p_course_id, seg_start) ==
    LET reached == {u \in user_max_progress(p_course_id) :
                        u.max_progress >= seg_start}
        joined == {<<u, l>> \in reached \X learning_logs :
                        l.user_id = u.user_id /\ l.course_id = p_course_id}
    IN  [seg_start |-> seg_start,
         seg_end |-> seg_start + 10,
         users_reached |-> Cardinality({u.user_id : u \in reached}),
         dropouts |-> Cardinality(
                 {k \in joined : CountsAsDropout(k[2], seg_start)})]

\* One row of segment_analysis: segments s LEFT JOIN user_max_progress u ON
\* u.max_progress >= s.seg_start LEFT JOIN learning_logs l ON l.user_id =
\* u.user_id AND l.course_id = p_course_id, grouped by s.seg_start.
segment_analysis_row(p_course_id, seg_start) ==
    LET reached == {u \in user_max_progress(p_course_id) :
                        u.max_progress >= seg_start}
        joined == {<<u, l>> \in reached \X learning_logs :
                        l.user_id = u.user_id /\ l.course_id = p_course_id}
    IN  [seg_start |-> seg_start,
         seg_end |-> seg_start + 10,
         users_reached |-> Cardinality({u.user_id : u \in reached}),
         dropouts |-> Cardinality(
             {j[2].user_id : j \in
                 {k \in joined : CountsAsDropout(k[2], seg_start)}})]

\* ROUND(sa.dropouts::numeric / NULLIF(sa.users_reached, 0) * 100, 2),
\* in hundredths of a percent; NULL when users_reached is 0.
dropout_rate_of(dropouts, users_reached) ==
    IF users_reached = 0 THEN NULL
    ELSE Some(RoundDiv(dropouts * 10000, users_reached))

\* sa.dropouts::numeric / NULLIF(sa.users_reached, 0) * 100 >= k, as SQL
\* evaluates it: not true when users_reached is 0 (the quotient is NULL).
RateAtLeast(dropouts, users_reached, k) ==
    users_reached # 0 /\ dropouts * 100 >= k * users_reached

\* risk_level_of with > in place of >= in the first branch.
risk_level_of_Mutant(dropouts, users_reached) ==
    IF users_reached # 0 /\ dropouts * 100 > 20 * users_reached THEN "critical"
    ELSE IF RateAtLeast(dropouts, users_reached, 15) THEN "high"
    ELSE IF RateAtLeast(dropouts, users_reached, 10) THEN "medium"
    ELSE "low"

\* CASE WHEN rate >= 20 THEN 'critical' WHEN rate >= 15 THEN 'high'
\* WHEN rate >= 10 THEN 'medium' ELSE 'low' END
risk_level_of(dropouts, users_reached) ==
    IF RateAtLeast(dropouts, users_reached, 20) THEN "critical"
    ELSE IF RateAtLeast(dropouts, users_reached, 15) THEN "high"
    ELSE IF RateAtLeast(dropouts, users_reached, 10) THEN "medium"
    ELSE "low"

\* The rows the function returns, ORDER BY sa.seg_start.
analyze_course_dropout(p_course_id) ==
    [i \in 1..Len(segments) |->
        LET sa == segment_analysis_row(p_course_id, segments[i])
        IN  [segment_start |-> sa.seg_start,
             segment_end |-> sa.seg_end,
             users_reached |-> sa.users_reached,
             dropout_count |-> sa.dropouts,
             dropout_rate |-> dropout_rate_of(sa.dropouts, sa.users_reached),
             risk_level |-> risk_level_of(sa.dropouts, sa.users_reached)]]

\* SELECT * FROM analyze_course_dropout(p)
CallAnalyzeCourseDropout(p) ==
    /\ result' = [stmt |-> "analyze_course_dropout", status |-> "ok",
                  course_id |-> p, rows |-> analyze_course_dropout(p)]
    /\ UNCHANGED <<tables, frontend>>

\* ---------------------------------------------------------------------
\* v_dropout_by_segment
\* ---------------------------------------------------------------------
\* FLOOR(l.progress_percent / 10)
FloorTenth(p) == Val(p) \div 10

\* The groups of courses c JOIN learning_logs l ON c.id = l.course_id,
\* GROUP BY course, FLOOR(l.progress_percent / 10).  A course is named by its
\* id (course_code is UNIQUE NOT NULL).  ORDER BY course_code, segment_start
\* is the order of the keys (course_id, segment_start) of this set.
v_dropout_by_segment ==
    LET joined == {l \in learning_logs : fk_course(l.course_id)}
        keys == {<<l.course_id, FloorTenth(l.progress_percent)>> : l \in joined}
        group(k) == {l \in joined : l.course_id = k[1]
                                    /\ FloorTenth(l.progress_percent) = k[2]}
        drops(k) == Cardinality({l \in group(k) : IsTrue(l.is_dropout)})
    IN  {[course_id |-> k[1],
          segment_start |-> k[2] * 10,
          segment_end |-> k[2] * 10 + 10,
          total_logs |-> Cardinality(group(k)),
          dropout_count |-> drops(k),
          dropout_rate |-> RoundDiv(drops(k) * 10000, Cardinality(group(k)))]
         : k \in keys}

SelectDropoutBySegment ==
    /\ result' = [stmt |-> "v_dropout_by_segment", status |-> "ok",
                  rows |-> v_dropout_by_segment]
    /\ UNCHANGED <<tables, frontend>>

\* ---------------------------------------------------------------------
\* v_course_summary
\* ---------------------------------------------------------------------
\* ROUND(count::numeric / NULLIF(total, 0) * 100, 2), in hundredths.
summary_rate(count, total) ==
    IF total = 0 THEN NULL ELSE Some(RoundDiv(count * 10000, total))

\* COUNT(DISTINCT CASE WHEN e.status = s THEN e.user_id END) over the
\* enrollments of course c.
CountStatus(c, s) ==
    Cardinality({e.user_id : e \in
        {x \in enrollments : x.course_id = c /\ x.status = Some(s)}})

\* v_course_summary without WHERE c.is_active = TRUE.
v_course_summary_Mutant ==
    {LET total == Cardinality({e.user_id : e \in
                     {x \in enrollments : x.course_id = c.id}})
     IN  [course_id |-> c.id,
          total_enrollments |-> total,
          completions |-> CountStatus(c.id, "completed"),
          dropouts |-> CountStatus(c.id, "dropped"),
          active_learners |-> CountStatus(c.id, "active"),
          completion_rate |-> summary_rate(CountStatus(c.id, "completed"), total),
          dropout_rate |-> summary_rate(CountStatus(c.id, "dropped"), total)]
     : c \in courses}

\* CREATE OR REPLACE VIEW v_course_summary: one row per active course
\* (courses c LEFT JOIN enrollments e ON c.id = e.course_id WHERE
\* c.is_active = TRUE GROUP BY c.id, ...).
v_course_summary ==
    {LET total == Cardinality({e.user_id : e \in
                     {x \in enrollments : x.course_id = c.id}})
     IN  [course_id |-> c.id,
          total_enrollments |-> total,
          completions |-> CountStatus(c.id, "completed"),
          dropouts |-> CountStatus(c.id, "dropped"),
          active_learners |-> CountStatus(c.id, "active"),
          completion_rate |-> summary_rate(CountStatus(c.id, "completed"), total),
          dropout_rate |-> summary_rate(CountStatus(c.id, "dropped"), total)]
     : c \in {k \in courses : k.is_active = TRUE}}

SelectCourseSummary ==
    /\ result' = [stmt |-> "v_course_summary", status |-> "ok",
                  rows |-> v_course_summary]
    /\ UNCHANGED <<tables, frontend>>

\* ---------------------------------------------------------------------
\* Danger zones: GET /api/analysis/danger-zones/{courseId}?threshold=...
\* ---------------------------------------------------------------------
\* The recommendation string of a danger zone, keyed by its risk level.
RecommendationFor(risk_level) == <<"recommendation for", risk_level>>

\* The danger zones the analysis engine answers for a course: none for a
\* course without enrollments, else the segments of the analysis whose
\* dropout rate exceeds the threshold (a percentage), in segment order.
danger_zones_of(course_id, threshold) ==
    LET rows == analyze_course_dropout(course_id)
        exceeds(r) == r.dropout_rate # NULL
                      /\ Val(r.dropout_rate) > threshold * 100
        zone(r) == [segment |-> <<r.segment_start, r.segment_end>>,
                    dropout_rate |-> Val(r.dropout_rate),
                    risk_level |-> r.risk_level,
                    recommendation |-> RecommendationFor(r.risk_level)]
        picked == SelectSeq(rows, exceeds)
    IN  IF \A e \in enrollments : e.course_id # course_id
        THEN <<>>
        ELSE [i \in 1..Len(picked) |-> zone(picked[i])]

\* getDangerZones with a default threshold of 15.
getDangerZonesThreshold_Mutant(threshold) ==
    IF threshold = NULL THEN 15 ELSE Val(threshold)

\* The threshold analysisApi.getDangerZones puts in the URL:
\* (courseId, threshold = 10) => `...?threshold=${threshold}`
getDangerZonesThreshold(threshold) ==
    IF threshold = NULL THEN 10 ELSE Val(threshold)

\* analysisApi.getDangerZones(courseId, threshold) and its response; a
\* threshold of NULL is a call that names none.
GetDangerZones(courseId, threshold) ==
    /\ result' = [stmt |-> "getDangerZones", status |-> "ok",
                  course_id |-> courseId, threshold |-> threshold,
                  danger_zones |->
                      danger_zones_of(courseId, getDangerZonesThreshold(threshold))]
    /\ UNCHANGED <<tables, frontend>>

\* ---------------------------------------------------------------------
\* Inputs of the statements
\* ---------------------------------------------------------------------
UserIds == {1, 2}
CourseIds == {1, 2}
\* status VARCHAR(20) DEFAULT 'active', progress_percent FLOAT DEFAULT 0.0,
\* is_dropout BOOLEAN DEFAULT FALSE, is_active BOOLEAN DEFAULT TRUE
DefaultStatus == Some("active")
DefaultProgress == Some(0)
DefaultIsDropout == Some(FALSE)
DefaultIsActive == TRUE
AnyWatchDuration == Some(0)

\* ---------------------------------------------------------------------
\* Spec: every write of the schema, the other columns at their defaults
\* ---------------------------------------------------------------------
Next ==
    \/ \E u \in UserIds : InsertUser(u)
    \/ \E u \in UserIds : DeleteUser(u)
    \/ \E c \in CourseIds : InsertCourse(c, DefaultIsActive)
    \/ \E c \in CourseIds : DeleteCourse(c)
    \/ \E id \in NewId(enrollments, MaxEnrollments), u \in UserIds,
          c \in CourseIds :
            InsertEnrollment(id, u, c, DefaultStatus, DefaultProgress)
    \/ \E id \in 1..MaxEnrollments, u \in UserIds, c \in CourseIds :
            UpdateEnrollment(id, u, c, DefaultStatus, DefaultProgress)
    \/ \E id \in 1..MaxEnrollments : DeleteEnrollment(id)
    \/ \E id \in NewId(learning_logs, MaxLogs), u \in UserIds, c \in CourseIds :
            InsertLog(id, u, c, Some(100), AnyWatchDuration, DefaultIsDropout)
    \/ \E id \in 1..MaxLogs : DeleteLog(id)
    \/ \E id \in NewId(dropout_analyses, MaxAnalyses), c \in CourseIds :
            InsertAnalysis(id, c, 0)
    \/ \E id \in 1..MaxAnalyses : DeleteAnalysis(id)

Spec == Init /\ [][Next]_vars

\* ---------------------------------------------------------------------
\* C7  After any sequence of enrollment writes no two enrollments rows hold
\* the same (user_id, course_id), and a rejected write leaves the
\* enrollments as they were.
\* ---------------------------------------------------------------------
OnePerUserCourse ==
    \A e1 \in enrollments, e2 \in enrollments :
        (e1.user_id = e2.user_id /\ e1.course_id = e2.course_id) => e1.id = e2.id

C7_UniqueEnrollment ==
    /\ []OnePerUserCourse
    /\ [][result'.status = "error" => enrollments' = enrollments]_vars

\* A second enrollment of a pair was attempted and refused.
C7_Witness ==
    /\ result.status = "error"
    /\ result.constraint = "unique_user_course"
    /\ Cardinality(enrollments) = 2

\* ---------------------------------------------------------------------
\* C9  Every enrollments and learning_logs row references an existing user
\* and an existing course, and every dropout_analyses row an existing course,
\* after any sequence of inserts and deletes (cascading deletes included).
\* ---------------------------------------------------------------------
C9_ReferentialIntegrity ==
    /\ \A e \in enrollments : fk_user(e.user_id) /\ fk_course(e.course_id)
    /\ \A l \in learning_logs : fk_user(l.user_id) /\ fk_course(l.course_id)
    /\ \A a \in dropout_analyses : fk_course(a.course_id)

\* A user with an enrollment and a log was deleted while other rows remain.
C9_Witness ==
    /\ result.stmt = "delete users"
    /\ result.cascade = 2
    /\ enrollments # {}

\* ---------------------------------------------------------------------
\* SpecRange: the writes of enrollments and learning_logs of a database
\* that holds the users and courses, with values in and out of the ranges
\* ---------------------------------------------------------------------
ProgressInputs == {NULL, Some(-1), Some(0), Some(100), Some(101)}
WatchDurationInputs == {NULL, Some(-1), Some(0)}
RangeCourse == CHOOSE c \in CourseIds : \A k \in CourseIds : c <= k

InitRange ==
    /\ users = UserIds
    /\ courses = {[id |-> c, is_active |-> DefaultIsActive] : c \in CourseIds}
    /\ enrollments = {}
    /\ learning_logs = {}
    /\ dropout_analyses = {}
    /\ result = [stmt |-> "none", status |-> "ok"]
    /\ InitFrontend

NextRange ==
    \/ \E id \in NewId(enrollments, MaxEnrollments), u \in UserIds,
          p \in ProgressInputs :
            InsertEnrollment(id, u, RangeCourse, DefaultStatus, p)
    \/ \E id \in 1..MaxEnrollments, u \in UserIds, p \in ProgressInputs :
            UpdateEnrollment(id, u, RangeCourse, DefaultStatus, p)
    \/ \E id \in 1..MaxEnrollments : DeleteEnrollment(id)
    \/ \E id \in NewId(learning_logs, MaxLogs), u \in UserIds,
          p \in ProgressInputs, w \in WatchDurationInputs :
            InsertLog(id, u, RangeCourse, p, w, DefaultIsDropout)
    \/ \E id \in 1..MaxLogs, p \in ProgressInputs, w \in WatchDurationInputs :
            UpdateLog(id, p, w, DefaultIsDropout)
    \/ \E id \in 1..MaxLogs : DeleteLog(id)

SpecRange == InitRange /\ [][NextRange]_vars

\* ---------------------------------------------------------------------
\* C8  Every progress_percent stored in enrollments and learning_logs is in
\* [0,100] (enrollments.progress_percent is nullable and may hold no value)
\* and every stored watch_duration_sec is >= 0; a rejected write leaves the
\* rows of both tables as they were.
\* ---------------------------------------------------------------------
InRange(p) == Val(p) >= 0 /\ Val(p) <= 100

StoredValuesInRange ==
    /\ \A e \in enrollments :
            e.progress_percent # NULL => InRange(e.progress_percent)
    /\ \A l \in learning_logs :
            /\ l.progress_percent # NULL /\ InRange(l.progress_percent)
            /\ l.watch_duration_sec # NULL /\ Val(l.watch_duration_sec) >= 0

AnalysisLogs == 3

AnalysedCourse == CHOOSE c \in CourseIds : \A k \in CourseIds : c <= k
OtherCourse == CHOOSE c \in CourseIds : c # AnalysedCourse
AnalysisProgressInputs == {Some(5), Some(95), Some(100)}
DropoutInputs == {Some(TRUE), Some(FALSE)}

InitAnalysis ==
    /\ users = UserIds
    /\ courses = {[id |-> c, is_active |-> DefaultIsActive] : c \in CourseIds}
    /\ enrollments = {}
    /\ learning_logs =
          {[id |-> 0, user_id |-> u, course_id |-> OtherCourse,
            progress_percent |-> Some(95), watch_duration_sec |-> AnyWatchDuration,
            is_dropout |-> Some(TRUE)] : u \in {Max(UserIds)}}
    /\ dropout_analyses = {}
    /\ result = [stmt |-> "none", status |-> "ok"]
    /\ InitFrontend

NextAnalysis ==
    \/ \E id \in NewId(learning_logs, AnalysisLogs), u \in UserIds,
          p \in AnalysisProgressInputs, d \in DropoutInputs :
            InsertLog(id, u, AnalysedCourse, p, AnyWatchDuration, d)
    \/ \E id \in 1..AnalysisLogs : DeleteLog(id)
    \/ \E c \in CourseIds : CallAnalyzeCourseDropout(c)
    \/ SelectDropoutBySegment

SpecAnalysis == InitAnalysis /\ [][NextAnalysis]_vars

IsAnalysis == result.stmt = "analyze_course_dropout"
LogsOf(c) == {l \in learning_logs : l.course_id = c}

\* ---------------------------------------------------------------------
\* C1  The users_reached values of the ten rows analyze_course_dropout
\* returns, read in segment order, never increase.
\* ---------------------------------------------------------------------
C1_FunnelNonIncreasing ==
    IsAnalysis =>
        \A i \in 1..(Len(result.rows) - 1) :
            result.rows[i].users_reached >= result.rows[i + 1].users_reached

\* An analysis in which the funnel narrows and the last segment is reached.
C1_Witness ==
    /\ IsAnalysis
    /\ Len(result.rows) = 10
    /\ result.rows[1].users_reached = 2
    /\ result.rows[10].users_reached = 1

\* ---------------------------------------------------------------------
\* C4  analyze_course_dropout returns ten rows with starts 0,10,...,90 in
\* ascending order; users_reached counts the users having a log of the
\* course at or beyond the start of the segment (their maximum is >= start)
\* and dropout_count the users having a dropout-flagged log of the course
\* with progress in [start, start+10).
\* ---------------------------------------------------------------------
UsersReaching(c, start) ==
    {u \in users : \E l \in LogsOf(c) :
        l.user_id = u /\ Val(l.progress_percent) >= start}

UsersDroppingIn(c, start) ==
    {u \in users : \E l \in LogsOf(c) :
        /\ l.user_id = u
        /\ l.is_dropout = Some(TRUE)
        /\ Val(l.progress_percent) >= start
        /\ Val(l.progress_percent) < start + 10}

C4_SegmentCounts ==
    IsAnalysis =>
        /\ Len(result.rows) = 10
        /\ \A i \in 1..10 :
            LET r == result.rows[i]
            IN  /\ r.segment_start = (i - 1) * 10
                /\ r.users_reached =
                      Cardinality(UsersReaching(result.course_id, r.segment_start))
                /\ r.dropout_count =
                      Cardinality(UsersDroppingIn(result.course_id, r.segment_start))

\* One user at 100% is counted in all ten segments; a user has two
\* dropout-flagged logs in the band 90-100 and is counted once.
C4_Witness ==
    /\ IsAnalysis
    /\ result.course_id = AnalysedCourse
    /\ \A i \in 1..10 : result.rows[i].users_reached >= 1
    /\ \E l \in LogsOf(AnalysedCourse) : l.progress_percent = Some(100)
    /\ \E l1 \in LogsOf(AnalysedCourse), l2 \in LogsOf(AnalysedCourse) :
            /\ l1.id # l2.id /\ l1.user_id = l2.user_id
            /\ l1.is_dropout = Some(TRUE) /\ l2.is_dropout = Some(TRUE)
            /\ l1.progress_percent = Some(95) /\ l2.progress_percent = Some(95)
    /\ result.rows[10].dropout_count = 1

\* ---------------------------------------------------------------------
\* C2  For each of the ten segments the dropout_rate returned is the number
\* dropout_count / users_reached * 100 (to two decimals), lies in [0,100],
\* and is the number 0 when users_reached is 0.
\* ---------------------------------------------------------------------
\* rate (hundredths of a percent) is count / total * 100 rounded to 2 decimals.
IsPercentOf(rate, count, total) ==
    /\ 2 * (rate * total - count * 10000) <= total
    /\ 2 * (count * 10000 - rate * total) <= total

C2_RateIsANumber ==
    IsAnalysis =>
        \A i \in 1..Len(result.rows) :
            LET r == result.rows[i]
            IN  /\ r.dropout_rate # NULL
                /\ Val(r.dropout_rate) >= 0
                /\ Val(r.dropout_rate) <= 10000
                /\ IF r.users_reached = 0
                   THEN Val(r.dropout_rate) = 0
                   ELSE IsPercentOf(Val(r.dropout_rate), r.dropout_count,
                                    r.users_reached)

\* ---------------------------------------------------------------------
\* C5  Every log with progress in [0,100] falls in one of the ten bands
\* 0-10, ..., 90-100: the segment view shows no other band, and every
\* dropout-flagged log of the analysed course is counted in exactly one of
\* the ten segments of the analysis.
\* ---------------------------------------------------------------------
TenBandStarts == {segments[i] : i \in 1..Len(segments)}

C5_TenBands ==
    /\ result.stmt = "v_dropout_by_segment" =>
          \A r \in result.rows :
              /\ r.segment_start \in TenBandStarts
              /\ r.segment_end = r.segment_start + 10
    /\ IsAnalysis =>
          \A l \in LogsOf(result.course_id) :
              l.is_dropout = Some(TRUE) =>
                  Cardinality({i \in 1..Len(result.rows) :
                      CountsAsDropout(l, result.rows[i].segment_start)}) = 1

\* ---------------------------------------------------------------------
\* SpecSummary: the enrollments of a database that holds the users and the
\* courses are written with any status, and v_course_summary is read.
\* ---------------------------------------------------------------------
StatusInputs == {Some("active"), Some("completed"), Some("dropped"),
                 Some("paused"), NULL}

InitSummary ==
    /\ users = UserIds
    /\ \E inactive \in SUBSET CourseIds :
          courses = {[id |-> c, is_active |-> c \notin inactive] : c \in CourseIds}
    /\ enrollments = {}
    /\ learning_logs = {}
    /\ dropout_analyses = {}
    /\ result = [stmt |-> "none", status |-> "ok"]
    /\ InitFrontend

NextSummary ==
    \/ \E id \in NewId(enrollments, MaxEnrollments), u \in UserIds,
          c \in CourseIds, s \in StatusInputs :
            InsertEnrollment(id, u, c, s, DefaultProgress)
    \/ \E id \in 1..MaxEnrollments, u \in UserIds, c \in CourseIds,
          s \in StatusInputs : UpdateEnrollment(id, u, c, s, DefaultProgress)
    \/ \E id \in 1..MaxEnrollments : DeleteEnrollment(id)
    \/ SelectCourseSummary

SpecSummary == InitSummary /\ [][NextSummary]_vars

IsSummary == result.stmt = "v_course_summary"
EnrollmentsOf(c) == {e \in enrollments : e.course_id = c}
EnrollmentsWith(c, s) == {e \in EnrollmentsOf(c) : e.status = Some(s)}

\* ---------------------------------------------------------------------
\* C6  For every course of the summary, dropout_rate is the number
\* (dropped enrollments) / (enrollments) * 100 and completion_rate the number
\* (completed enrollments) / (enrollments) * 100, to two decimals, and both
\* are the number 0 for a course without enrollments.
\* ---------------------------------------------------------------------
C6_SummaryRates ==
    IsSummary =>
        \A r \in result.rows :
            LET total == Cardinality(EnrollmentsOf(r.course_id))
                dropped == Cardinality(EnrollmentsWith(r.course_id, "dropped"))
                completed == Cardinality(EnrollmentsWith(r.course_id, "completed"))
            IN  /\ r.dropout_rate # NULL
                /\ r.completion_rate # NULL
                /\ IF total = 0
                   THEN Val(r.dropout_rate) = 0 /\ Val(r.completion_rate) = 0
                   ELSE /\ IsPercentOf(Val(r.dropout_rate), dropped, total)
                        /\ IsPercentOf(Val(r.completion_rate), completed, total)

\* ---------------------------------------------------------------------
\* C28  For every course of the summary, after any sequence of enrollment
\* writes the schema accepts, completions + dropouts + active_learners =
\* total_enrollments, and completion_rate + dropout_rate <= 100.
\* ---------------------------------------------------------------------
C28_StatusCountsAddUp ==
    IsSummary =>
        \A r \in result.rows :
            /\ r.completions + r.dropouts + r.active_learners = r.total_enrollments
            /\ (r.completion_rate # NULL /\ r.dropout_rate # NULL)
                  => Val(r.completion_rate) + Val(r.dropout_rate) <= 10000

\* ---------------------------------------------------------------------
\* SpecCohort: a course followed by a cohort.  `reached` users have their
\* one log at 45%, `dropped` of them flagged as dropout there; one more user
\* dropped out at 5%.  The segment analysis and the danger zones are read.
\* ---------------------------------------------------------------------
\* Largest number of users at 45% (beside the cohort of the worked example).
MaxCohort == 20

\* <<reached, dropped>> of the worked example: 60 reach 40-50%, 12 drop there.
ExampleCohort == <<60, 12>>
CohortCases ==
    {<<r, d>> \in (0..MaxCohort) \X (0..MaxCohort) : d <= r} \cup {ExampleCohort}
ThresholdInputs == {NULL, Some(5), Some(20)}

CohortLog(u, p, d) ==
    [id |-> u, user_id |-> u, course_id |-> AnalysedCourse,
     progress_percent |-> Some(p), watch_duration_sec |-> AnyWatchDuration,
     is_dropout |-> Some(d)]

InitCohort ==
    \E k \in CohortCases, enrolled \in BOOLEAN :
        /\ users = 1..(k[1] + 1)
        /\ courses = {[id |-> AnalysedCourse, is_active |-> DefaultIsActive]}
        /\ enrollments =
              IF enrolled
              THEN {[id |-> u, user_id |-> u, course_id |-> AnalysedCourse,
                     status |-> DefaultStatus, progress_percent |-> DefaultProgress]
                    : u \in 1..(k[1] + 1)}
              ELSE {}
        /\ learning_logs = {CohortLog(u, 45, u <= k[2]) : u \in 1..k[1]}
                           \cup {CohortLog(k[1] + 1, 5, TRUE)}
        /\ dropout_analyses = {}
        /\ result = [stmt |-> "none", status |-> "ok"]
        /\ InitFrontend

NextCohort ==
    \/ CallAnalyzeCourseDropout(AnalysedCourse)
    \/ \E t \in ThresholdInputs : GetDangerZones(AnalysedCourse, t)

SpecCohort == InitCohort /\ [][NextCohort]_vars

\* ---------------------------------------------------------------------
\* C3  The risk_level of a segment is decided by its dropout rate
\* dropout_count / users_reached * 100 alone, first match winning: >= 20
\* critical, >= 15 high, >= 10 medium, else low; 12 dropouts of 60 users
\* reached is critical and a segment nobody reached is low.
\* ---------------------------------------------------------------------
RiskByRate(count, reached) ==
    IF reached = 0 THEN "low"
    ELSE IF count * 100 >= 20 * reached THEN "critical"
    ELSE IF count * 100 >= 15 * reached THEN "high"
    ELSE IF count * 100 >= 10 * reached THEN "medium"
    ELSE "low"

C3_RiskByRate ==
    IsAnalysis =>
        \A i \in 1..Len(result.rows) :
            LET r == result.rows[i]
            IN  /\ r.risk_level = RiskByRate(r.dropout_count, r.users_reached)
                /\ (r.users_reached = 60 /\ r.dropout_count = 12)
                      => (r.dropout_rate = Some(2000) /\ r.risk_level = "critical")
                /\ r.users_reached = 0 => r.risk_level = "low"

\* The worked example: segment 40-50 with 60 reached and 12 dropouts is
\* critical, and the segments beyond it, reached by nobody, are low.
C3_Witness ==
    /\ IsAnalysis
    /\ result.rows[5].users_reached = 60
    /\ result.rows[5].dropout_count = 12
    /\ result.rows[5].risk_level = "critical"
    /\ result.rows[6].users_reached = 0
    /\ result.rows[6].risk_level = "low"

\* ---------------------------------------------------------------------
\* C10  The danger zones answered for a course and a threshold t (10 when
\* the caller names none) are exactly the segments whose dropout rate is
\* strictly greater than t, in segment order, each with the risk level of
\* the segment and the recommendation of that risk level; a course without
\* enrollments has none.
\* ---------------------------------------------------------------------
IsDangerZones == result.stmt = "getDangerZones"
ThresholdAsked == IF result.threshold = NULL THEN 10 ELSE Val(result.threshold)

\* The starts of the segments of course c whose rate count / reached * 100
\* is strictly above t.
StartsAbove(c, t) ==
    {start \in TenBandStarts :
        /\ UsersReaching(c, start) # {}
        /\ Cardinality(UsersDroppingIn(c, start)) * 100
              > t * Cardinality(UsersReaching(c, start))}

C10_DangerZones ==
    IsDangerZones =>
        LET z == result.danger_zones
            c == result.course_id
        IN  IF EnrollmentsOf(c) = {}
            THEN z = <<>>
            ELSE /\ {z[i].segment[1] : i \in 1..Len(z)} = StartsAbove(c, ThresholdAsked)
                 /\ \A i \in 1..(Len(z) - 1) : z[i].segment[1] < z[i + 1].segment[1]
                 /\ \A i \in 1..Len(z) :
                       /\ z[i].risk_level =
                             RiskByRate(
                                 Cardinality(UsersDroppingIn(c, z[i].segment[1])),
                                 Cardinality(UsersReaching(c, z[i].segment[1])))
                       /\ z[i].recommendation = RecommendationFor(z[i].risk_level)

\* No threshold was named; the segment 0-10 has a rate of exactly 10% and
\* is no danger zone, the segment 40-50 (rate above 10% and below 15%) is one.
C10_Witness ==
    /\ IsDangerZones
    /\ result.threshold = NULL
    /\ enrollments # {}
    /\ Cardinality(users) = 10
    /\ Len(result.danger_zones) = 1
    /\ result.danger_zones[1].segment = <<40, 50>>
    /\ result.danger_zones[1].risk_level = "medium"
    /\ result.danger_zones[1].dropout_rate < 1500

\* ---------------------------------------------------------------------
\* Dropout reasons: GET /api/analysis/reasons/{courseId} and the share
\* the dropout page gives each reason
\* ---------------------------------------------------------------------
\* INSERT INTO learning_logs (user_id, course_id, progress_percent,
\* watch_duration_sec, is_dropout, dropout_reason); dropout_reason is a
\* nullable VARCHAR.
InsertLogWithReason(id, u, c, p, w, d, r) ==
    LET why == LogViolation(u, c, p, w)
    IN  /\ \A l \in learning_logs : l.id # id
        /\ IF why = "none"
           THEN /\ learning_logs' = learning_logs \cup
                      {[id |-> id, user_id |-> u, course_id |-> c,
                        progress_percent |-> p, watch_duration_sec |-> w,
                        is_dropout |-> d, dropout_reason |-> r]}
                /\ result' = Ok("insert learning_logs")
           ELSE /\ learning_logs' = learning_logs
                /\ result' = Rejected("insert learning_logs", why)
        /\ UNCHANGED <<users, courses, enrollments, dropout_analyses, frontend>>

\* The elements of the finite set S in the strict total order before, a set
\* of pairs <<a, b>> with a ahead of b.
Ordered(S, before) ==
    [i \in 1..Cardinality(S) |->
        CHOOSE x \in S : Cardinality({y \in S : <<y, x>> \in before}) = i - 1]

\* The dropout reasons the analysis engine answers for a course: the
\* dropout-flagged logs of the course tallied by dropout_reason (the logs
\* that give no reason are one group), by count descending, equal counts in
\* first-seen order (the order of the ids of the logs).
dropout_reasons_of(course_id) ==
    LET drops == {l \in learning_logs :
                     l.course_id = course_id /\ IsTrue(l.is_dropout)}
        group(k) == {l \in drops : l.dropout_reason = k}
        count(k) == Cardinality(group(k))
        first(k) == CHOOSE i \in {l.id : l \in group(k)} :
                        \A l \in group(k) : i <= l.id
        before(a, b) == \/ count(a) > count(b)
                        \/ count(a) = count(b) /\ first(a) < first(b)
        named == {l.dropout_reason : l \in drops}
        keys == Ordered(named, {p \in named \X named : before(p[1], p[2])})
    IN  [i \in 1..Len(keys) |-> [reason |-> keys[i], count |-> count(keys[i])]]

\* reasons.reduce((sum, r) => sum + r.count, 0)
RECURSIVE totalReasonCount(_)
totalReasonCount(reasons) ==
    IF reasons = <<>> THEN 0
    ELSE Head(reasons).count + totalReasonCount(Tail(reasons))

\* reasonsWithPercentage taking the share of the enrollments.
reasonsWithPercentage_Mutant(reasons) ==
    LET total == Cardinality(enrollments)
    IN  [i \in 1..Len(reasons) |->
            [reason |-> reasons[i].reason,
             count |-> reasons[i].count,
             percentage |-> IF total > 0
                            THEN <<reasons[i].count * 100, total>>
                            ELSE <<0, 1>>]]

\* reasons.map((r) => ({ ...r, percentage: totalReasonCount > 0 ?
\* (r.count / totalReasonCount) * 100 : 0 })).  The percentage is held as
\* the exact quotient <<numerator, denominator>>.
reasonsWithPercentage(reasons) ==
    LET total == totalReasonCount(reasons)
    IN  [i \in 1..Len(reasons) |->
            [reason |-> reasons[i].reason,
             count |-> reasons[i].count,
             percentage |-> IF total > 0
                            THEN <<reasons[i].count * 100, total>>
                            ELSE <<0, 1>>]]

\* analysisApi.getReasons(courseId) answers and the dropout page renders
\* the reasons with their percentages.
ShowReasons(courseId) ==
    /\ result' = [stmt |-> "getReasons", status |-> "ok",
                  course_id |-> courseId,
                  reasons |-> dropout_reasons_of(courseId),
                  reasonsWithPercentage |->
                      reasonsWithPercentage(dropout_reasons_of(courseId))]
    /\ UNCHANGED <<tables, frontend>>

\* ---------------------------------------------------------------------
\* SpecReasons: dropout logs with and without a reason are written for
\* one course and the reasons of a course are shown.  The other course
\* holds one dropout log that no write touches.
\* ---------------------------------------------------------------------
\* Rows learning_logs holds for the analysed course at a time.
ReasonLogs == 3

ReasonInputs == {NULL, Some("too_hard"), Some("no_time")}

InitReasons ==
    /\ users = UserIds
    /\ courses = {[id |-> c, is_active |-> DefaultIsActive] : c \in CourseIds}
    /\ enrollments =
          {[id |-> u, user_id |-> u, course_id |-> AnalysedCourse,
            status |-> DefaultStatus, progress_percent |-> DefaultProgress]
           : u \in UserIds}
    /\ learning_logs =
          {[id |-> 0, user_id |-> u, course_id |-> OtherCourse,
            progress_percent |-> Some(95), watch_duration_sec |-> AnyWatchDuration,
            is_dropout |-> Some(TRUE), dropout_reason |-> Some("too_hard")]
           : u \in {Max(UserIds)}}
    /\ dropout_analyses = {}
    /\ result = [stmt |-> "none", status |-> "ok"]
    /\ InitFrontend

NextReasons ==
    \/ \E id \in NewId(learning_logs, ReasonLogs), u \in UserIds,
          d \in DropoutInputs, r \in ReasonInputs :
            InsertLogWithReason(id, u, AnalysedCourse, Some(45),
                                AnyWatchDuration, d, r)
    \/ \E id \in 1..ReasonLogs : DeleteLog(id)
    \/ \E c \in CourseIds : ShowReasons(c)

SpecReasons == InitReasons /\ [][NextReasons]_vars

IsReasons == result.stmt = "getReasons"
DropoutLogsOf(c) == {l \in LogsOf(c) : l.is_dropout = Some(TRUE)}

\* The sum of the exact quotients of a sequence of reasons with percentage.
RECURSIVE PercentageSum(_)
PercentageSum(rs) ==
    IF rs = <<>> THEN <<0, 1>>
    ELSE LET p == Head(rs).percentage
             rest == PercentageSum(Tail(rs))
         IN  <<p[1] * rest[2] + rest[1] * p[2], p[2] * rest[2]>>

\* ---------------------------------------------------------------------
\* C11  The counts of the reasons shown for a course add up to the number
\* of dropout-flagged logs of the course; each percentage is count / (that
\* number) * 100; the percentages add up to 100 when the course has a
\* dropout-flagged log and all are 0 when it has none.
\* ---------------------------------------------------------------------
C11_ReasonShares ==
    IsReasons =>
        LET rs == result.reasonsWithPercentage
            dropouts == Cardinality(DropoutLogsOf(result.course_id))
            sum == PercentageSum(rs)
        IN  /\ totalReasonCount(result.reasons) = dropouts
            /\ \A i \in 1..Len(rs) :
                  /\ rs[i].count = result.reasons[i].count
                  /\ rs[i].percentage[2] > 0
                  /\ rs[i].percentage[1] * dropouts
                        = rs[i].count * 100 * rs[i].percentage[2]
            /\ dropouts > 0 => sum[1] = 100 * sum[2]
            /\ dropouts = 0 => \A i \in 1..Len(rs) : rs[i].percentage[1] = 0

\* Three dropout logs of the course, two of one reason and one that gives
\* none, beside a log that is no dropout: shares of 2/3 and 1/3.
C11_Witness ==
    /\ IsReasons
    /\ result.course_id = AnalysedCourse
    /\ Cardinality(LogsOf(AnalysedCourse)) = 3
    /\ Len(result.reasonsWithPercentage) = 2
    /\ result.reasonsWithPercentage[1].count = 2
    /\ result.reasonsWithPercentage[1].percentage = <<200, 3>>
    /\ result.reasonsWithPercentage[2].reason = NULL
    /\ result.reasonsWithPercentage[2].percentage = <<100, 3>>

\* ---------------------------------------------------------------------
\* Chart data: GET /api/analysis/chart-data/{courseId} and the peak
\* segment the dropout page shows under the chart
\* ---------------------------------------------------------------------
\* The chart data the analysis engine answers for a course: the ten
\* segments labelled "{start}-{end}%" (held as <<start, end>>), their dropout
\* rates to two decimals (in hundredths, 0 for a segment nobody reached) as
\* datasets[0].data, and their dropout counts.
chart_data_of(course_id) ==
    LET row(i) == segment_analysis_row(course_id, segments[i])
        rate(sa) == IF sa.users_reached = 0 THEN 0
                    ELSE RoundDiv(sa.dropouts * 10000, sa.users_reached)
    IN  [labels |-> [i \in 1..Len(segments) |-> <<row(i).seg_start, row(i).seg_end>>],
         data |-> [i \in 1..Len(segments) |-> rate(row(i))],
         dropout_counts |-> [i \in 1..Len(segments) |-> row(i).dropouts]]

\* Math.round of a non-negative number given in hundredths.
MathRound(hundredths) == RoundDiv(hundredths, 100)

\* const dropoutRates = rawDropoutRates.map((rate) => Math.round(rate))
dropoutRates(chartData) ==
    [i \in 1..Len(chartData.data) |-> MathRound(chartData.data[i])]

\* chartData?.labels?.length && dropoutRates.length
isChartDataReady(chartData) ==
    Len(chartData.labels) # 0 /\ Len(dropoutRates(chartData)) # 0

\* isChartDataReady ? Math.max(...dropoutRates) : 1
maxDropoutRate(chartData) ==
    IF isChartDataReady(chartData)
    THEN Max({dropoutRates(chartData)[i] : i \in 1..Len(chartData.data)})
    ELSE 1

\* label.match(/^(\d+)/) ? `${match[1]}%` : label -- the start of the label.
simpleLabels(chartData) ==
    [i \in 1..Len(chartData.labels) |-> chartData.labels[i][1]]

\* indexOf finding the last position of v.
indexOf_Mutant(s, v) ==
    CHOOSE i \in 1..Len(s) : s[i] = v /\ \A j \in (i + 1)..Len(s) : s[j] # v

\* Array.prototype.indexOf for a value the array holds: its first position
\* (counted from 1).
indexOf(s, v) ==
    CHOOSE i \in 1..Len(s) : s[i] = v /\ \A j \in 1..(i - 1) : s[j] # v

\* {isChartDataReady && ... {simpleLabels[dropoutRates.indexOf(
\* maxDropoutRate)]} ({maxDropoutRate}%)}: the peak shown, NULL when none is.
peakInfo(chartData) ==
    IF isChartDataReady(chartData)
    THEN Some([segment_start |->
                   simpleLabels(chartData)[indexOf(dropoutRates(chartData),
                                                   maxDropoutRate(chartData))],
               rate |-> maxDropoutRate(chartData)])
    ELSE NULL

\* analysisApi.getChartData(courseId) answers and the dropout page renders
\* the chart with its peak.
ShowChart(courseId) ==
    /\ result' = [stmt |-> "getChartData", status |-> "ok",
                  course_id |-> courseId,
                  chartData |-> chart_data_of(courseId),
                  peakInfo |-> peakInfo(chart_data_of(courseId))]
    /\ UNCHANGED <<tables, frontend>>

\* ---------------------------------------------------------------------
\* SpecChart: a course followed by two groups of users, one whose only log
\* is at 5% and one whose only log is at 45%, some of each group flagged as
\* dropout there.  Logs are deleted and the chart of the course is shown.
\* ---------------------------------------------------------------------
\* Largest number of users of a group.
MaxGroup == 3

GroupCases == {<<n, k>> \in (0..MaxGroup) \X (0..MaxGroup) : k <= n}

InitChart ==
    \E early \in GroupCases, late \in GroupCases :
        /\ users = 1..(early[1] + late[1])
        /\ courses = {[id |-> AnalysedCourse, is_active |-> DefaultIsActive]}
        /\ enrollments = {}
        /\ learning_logs =
              {CohortLog(u, 5, u <= early[2]) : u \in 1..early[1]}
              \cup {CohortLog(early[1] + u, 45, u <= late[2]) : u \in 1..late[1]}
        /\ dropout_analyses = {}
        /\ result = [stmt |-> "none", status |-> "ok"]
        /\ InitFrontend

NextChart ==
    \/ \E id \in 1..(2 * MaxGroup) : DeleteLog(id)
    \/ ShowChart(AnalysedCourse)

SpecChart == InitChart /\ [][NextChart]_vars

IsChart == result.stmt = "getChartData"
PeakShown == IsChart /\ result.peakInfo # NULL

\* ---------------------------------------------------------------------
\* C12 (as claimed)  The peak segment shown for a course is the segment
\* with the maximum dropout_count, the one with the lowest start when
\* several share the maximum.
\* ---------------------------------------------------------------------
C12_PeakByCount ==
    PeakShown =>
        LET counts == result.chartData.dropout_counts
            starts == result.chartData.labels
            peak == Val(result.peakInfo).segment_start
        IN  \E i \in 1..Len(counts) :
                /\ starts[i][1] = peak
                /\ \A j \in 1..Len(counts) : counts[j] <= counts[i]
                /\ \A j \in 1..(i - 1) : counts[j] < counts[i]

\* ---------------------------------------------------------------------
\* C12 (amended)  The peak segment shown for a course is the segment with
\* the maximum dropout rate rounded to a whole percent, the one with the
\* lowest start when several share the maximum, and the rate shown is that
\* maximum.
\* ---------------------------------------------------------------------
C12_PeakByRoundedRate ==
    PeakShown =>
        LET rates == result.chartData.data
            starts == result.chartData.labels
            peak == Val(result.peakInfo)
        IN  \E i \in 1..Len(rates) :
                /\ starts[i][1] = peak.segment_start
                /\ MathRound(rates[i]) = peak.rate
                /\ \A j \in 1..Len(rates) : MathRound(rates[j]) <= peak.rate
                /\ \A j \in 1..(i - 1) : MathRound(rates[j]) < peak.rate

\* Segment 0-10 has the most dropouts (2 of 3 users reached, 67%) and the
\* segment 40-50 the highest rate (1 of 1, 100%): the peak shown is 40.
C12_Witness ==
    /\ PeakShown
    /\ result.chartData.dropout_counts[1] = 2
    /\ result.chartData.dropout_counts[5] = 1
    /\ result.chartData.data[1] = 6667
    /\ Val(result.peakInfo) = [segment_start |-> 40, rate |-> 100]

\* ---------------------------------------------------------------------
\* Recommendations: POST /api/recommend/quick, POST
\* /api/recommend/learning-path and GET /api/recommend/popular
\* ---------------------------------------------------------------------
\* difficulty VARCHAR(20): the three difficulties, easiest first.
Difficulties == <<"beginner", "intermediate", "advanced">>

\* The course catalog the engine reads: the rows of v_course_summary (the
\* active courses) with their category and difficulty columns.
catalog ==
    {[course_id |-> r.course_id,
      category |-> (CHOOSE c \in courses : c.id = r.course_id).category,
      difficulty |-> (CHOOSE c \in courses : c.id = r.course_id).difficulty,
      total_enrollments |-> r.total_enrollments,
      completion_rate |-> r.completion_rate]
     : r \in v_course_summary}

\* The completion rate the engine ranks a course by: a course without
\* enrollments counts as 0, never as a missing value.
RateOrZero(c) == IF c.completion_rate = NULL THEN 0 ELSE Val(c.completion_rate)

\* Ranking of the courses of one role and difficulty: every course of the
\* list matches role and difficulty alike, so the score orders them by
\* completion rate, ties by course_id ascending.
ByScore(a, b) ==
    \/ RateOrZero(a) > RateOrZero(b)
    \/ RateOrZero(a) = RateOrZero(b) /\ a.course_id < b.course_id

\* The pairs of S that the comparison ByScore puts in order.
InScoreOrder(S) == {p \in S \X S : ByScore(p[1], p[2])}

\* The first n elements of a sequence.
Take(s, n) == SubSeq(s, 1, IF n < Len(s) THEN n ELSE Len(s))

\* The N of the top-N a quick recommendation returns.
QuickTopN == 5

\* quick_recommend returning completed courses too.
quick_recommend_Mutant(desired_role, experience_level, completed_courses) ==
    LET matching == {c \in catalog : /\ c.category = desired_role
                                     /\ c.difficulty = experience_level}
        ranked == Take(Ordered(matching, InScoreOrder(matching)), QuickTopN)
    IN  [i \in 1..Len(ranked) |->
            [course_id |-> ranked[i].course_id,
             category |-> ranked[i].category,
             difficulty |-> ranked[i].difficulty,
             recommendation_score |-> RateOrZero(ranked[i]),
             completion_rate |-> RateOrZero(ranked[i])]]

\* quick_recommend(desired_role, experience_level, completed_courses): the
\* courses of the catalog of the role's category and of the difficulty of
\* the experience level, without the completed ones, the top N by score.
quick_recommend(desired_role, experience_level, completed_courses) ==
    LET matching == {c \in catalog : /\ c.category = desired_role
                                     /\ c.difficulty = experience_level
                                     /\ c.course_id \notin completed_courses}
        ranked == Take(Ordered(matching, InScoreOrder(matching)), QuickTopN)
    IN  [i \in 1..Len(ranked) |->
            [course_id |-> ranked[i].course_id,
             category |-> ranked[i].category,
             difficulty |-> ranked[i].difficulty,
             recommendation_score |-> RateOrZero(ranked[i]),
             completion_rate |-> RateOrZero(ranked[i])]]

\* recommendApi.getQuickRecommendations(data) and its response.
GetQuickRecommendations(data) ==
    /\ result' = [stmt |-> "getQuickRecommendations", status |-> "ok",
                  data |-> data,
                  recommendations |->
                      quick_recommend(data.desired_role, data.experience_level,
                                      data.completed_courses)]
    /\ UNCHANGED <<tables, frontend>>

\* The position of a difficulty in Difficulties.
Rank(difficulty) == CHOOSE i \in 1..Len(Difficulties) : Difficulties[i] = difficulty

\* The stages of a path: the three difficulties in order, without the
\* beginner stage for a learner already past beginner.
StagesFor(level) ==
    SelectSeq(Difficulties, LAMBDA d : level = "beginner" \/ d # "beginner")

\* build_learning_path always returning the three stages.
build_learning_path_Mutant(level, desired_role, known_concepts, completed_courses, in_progress_courses) ==
    LET stages == Difficulties
        open(d) == {c \in catalog : /\ c.category = desired_role
                                    /\ c.difficulty = d
                                    /\ c.course_id \notin completed_courses
                                    /\ c.course_id \notin in_progress_courses}
        listed(d) == Ordered(open(d), InScoreOrder(open(d)))
    IN  [i \in 1..Len(stages) |->
            [stage |-> i,
             difficulty |-> stages[i],
             courses |-> [k \in 1..Len(listed(stages[i])) |->
                 [course_id |-> listed(stages[i])[k].course_id,
                  completion_rate |-> RateOrZero(listed(stages[i])[k])]]]]

\* build_learning_path(level, desired_role, known_concepts,
\* completed_courses, in_progress_courses): the courses of the role in
\* ordered difficulty stages, each stage by completion rate descending,
\* without the completed and in-progress courses.
build_learning_path(level, desired_role, known_concepts, completed_courses, in_progress_courses) ==
    LET stages == StagesFor(level)
        open(d) == {c \in catalog : /\ c.category = desired_role
                                    /\ c.difficulty = d
                                    /\ c.course_id \notin completed_courses
                                    /\ c.course_id \notin in_progress_courses}
        listed(d) == Ordered(open(d), InScoreOrder(open(d)))
    IN  [i \in 1..Len(stages) |->
            [stage |-> i,
             difficulty |-> stages[i],
             courses |-> [k \in 1..Len(listed(stages[i])) |->
                 [course_id |-> listed(stages[i])[k].course_id,
                  completion_rate |-> RateOrZero(listed(stages[i])[k])]]]]

\* recommendApi.getLearningPath(data) and its response.
GetLearningPath(data) ==
    /\ result' = [stmt |-> "getLearningPath", status |-> "ok",
                  data |-> data,
                  learning_path |->
                      build_learning_path(data.level, data.desired_role,
                                          data.known_concepts,
                                          data.completed_courses,
                                          data.in_progress_courses)]
    /\ UNCHANGED <<tables, frontend>>

\* Ranking of the popular courses: total_enrollments descending, ties by
\* completion rate descending, then by course_id ascending.
ByPopularity(a, b) ==
    \/ a.total_enrollments > b.total_enrollments
    \/ /\ a.total_enrollments = b.total_enrollments
       /\ RateOrZero(a) > RateOrZero(b)
    \/ /\ a.total_enrollments = b.total_enrollments
       /\ RateOrZero(a) = RateOrZero(b)
       /\ a.course_id < b.course_id

\* The pairs of S that the comparison ByPopularity puts in order.
InPopularityOrder(S) == {p \in S \X S : ByPopularity(p[1], p[2])}

\* popular_courses(limit): the top `limit` of the active courses.
popular_courses(limit) ==
    LET ranked == Take(Ordered(catalog, InPopularityOrder(catalog)), limit)
    IN  [i \in 1..Len(ranked) |->
            [course_id |-> ranked[i].course_id,
             category |-> ranked[i].category,
             difficulty |-> ranked[i].difficulty,
             total_enrollments |-> ranked[i].total_enrollments,
             completion_rate |-> RateOrZero(ranked[i])]]

\* The limit recommendApi.getPopularCourses puts in the URL:
\* (limit = 6) => `...?limit=${limit}`
getPopularCoursesLimit(limit) == IF limit = NULL THEN 6 ELSE Val(limit)

\* recommendApi.getPopularCourses(limit) and its response; a limit of NULL
\* is a call that names none.
GetPopularCourses(limit) ==
    /\ result' = [stmt |-> "getPopularCourses", status |-> "ok",
                  limit |-> limit,
                  courses |-> popular_courses(getPopularCoursesLimit(limit))]
    /\ UNCHANGED <<tables, frontend>>

\* ---------------------------------------------------------------------
\* SpecRecommend: a catalog of courses of two categories and three
\* difficulties, some inactive; a user enrolls in and completes courses,
\* and quick recommendations and learning paths are requested.
\* ---------------------------------------------------------------------
\* Rows enrollments holds at a time.
RecommendEnrollments == 2

CatalogCourses ==
    {[id |-> 1, category |-> "backend", difficulty |-> "beginner"],
     [id |-> 2, category |-> "backend", difficulty |-> "intermediate"],
     [id |-> 3, category |-> "backend", difficulty |-> "advanced"],
     [id |-> 4, category |-> "data", difficulty |-> "beginner"]}
CatalogIds == {c.id : c \in CatalogCourses}

\* The courses table holding the courses `ids`, those of `inactive` inactive.
Catalog(ids, inactive) ==
    {[id |-> c.id, is_active |-> c.id \notin inactive,
      category |-> c.category, difficulty |-> c.difficulty]
     : c \in {k \in CatalogCourses : k.id \in ids}}

CatalogCases ==
    {Catalog({}, {}), Catalog(CatalogIds, {}), Catalog(CatalogIds, {2}),
     Catalog({4}, {})}

\* <select> of the quick tab (backend .. devops) and of the level.
RoleInputs == {"backend", "data", "devops"}
LevelInputs == {Difficulties[i] : i \in 1..Len(Difficulties)}
\* completed_courses: [] as the page sends it, or a list of course ids.
CompletedInputs == {{}, {1}}
QuickRequests ==
    [desired_role : RoleInputs, experience_level : {"beginner", "advanced"},
     completed_courses : CompletedInputs]

\* completed_courses and in_progress_courses: [] and [] as the page sends
\* them, or lists of course ids.
HistoryInputs == {<<{}, {}>>, <<{1}, {2}>>}
PathRequests ==
    {[user_id |-> "web_user", level |-> l, desired_role |-> r,
      known_concepts |-> {}, completed_courses |-> h[1],
      in_progress_courses |-> h[2]]
     : l \in LevelInputs, r \in {"backend", "devops"}, h \in HistoryInputs}

InitRecommend ==
    /\ users = UserIds
    /\ courses \in CatalogCases
    /\ enrollments = {}
    /\ learning_logs = {}
    /\ dropout_analyses = {}
    /\ result = [stmt |-> "none", status |-> "ok"]
    /\ InitFrontend

\* The user whose enrollments are written.
Learner == CHOOSE u \in UserIds : \A v \in UserIds : u <= v

NextRecommend ==
    \/ \E id \in NewId(enrollments, RecommendEnrollments),
          c \in CatalogIds, s \in {Some("active"), Some("completed")} :
            InsertEnrollment(id, Learner, c, s, DefaultProgress)
    \/ \E id \in 1..RecommendEnrollments : DeleteEnrollment(id)
    \/ \E data \in QuickRequests : GetQuickRecommendations(data)
    \/ \E data \in PathRequests : GetLearningPath(data)

SpecRecommend == InitRecommend /\ [][NextRecommend]_vars

IsQuick == result.stmt = "getQuickRecommendations"
ActiveCourses == {c \in courses : c.is_active = TRUE}

\* ---------------------------------------------------------------------
\* C13  A quick recommendation answers without error and returns no course
\* of completed_courses; it returns the empty list when the catalog is
\* empty or holds no course of the role.
\* ---------------------------------------------------------------------
C13_QuickRecommend ==
    IsQuick =>
        /\ result.status = "ok"
        /\ \A i \in 1..Len(result.recommendations) :
              result.recommendations[i].course_id
                  \notin result.data.completed_courses
        /\ (\A c \in ActiveCourses : c.category # result.data.desired_role)
              => result.recommendations = <<>>

\* The learner completed course 1, the beginner course of the role; the
\* catalog holds it and nothing is recommended.
C13_Witness ==
    /\ IsQuick
    /\ result.data = [desired_role |-> "backend", experience_level |-> "beginner",
                      completed_courses |-> {1}]
    /\ \E c \in ActiveCourses : c.id = 1
    /\ result.recommendations = <<>>

\* The catalog is empty and the answer is the empty list.
C13_WitnessEmpty ==
    /\ IsQuick
    /\ courses = {}
    /\ result.status = "ok"
    /\ result.recommendations = <<>>

IsPath == result.stmt = "getLearningPath"

\* ---------------------------------------------------------------------
\* C14  The stages of a learning path are in the order beginner,
\* intermediate, advanced; no stage holds a course of completed_courses or
\* in_progress_courses; a path for level advanced has no beginner stage.
\* ---------------------------------------------------------------------
C14_LearningPath ==
    IsPath =>
        LET path == result.learning_path
        IN  /\ \A i \in 1..(Len(path) - 1) :
                  Rank(path[i].difficulty) < Rank(path[i + 1].difficulty)
            /\ \A i \in 1..Len(path) : \A k \in 1..Len(path[i].courses) :
                  /\ path[i].courses[k].course_id
                        \notin result.data.completed_courses
                  /\ path[i].courses[k].course_id
                        \notin result.data.in_progress_courses
            /\ result.data.level = "advanced" =>
                  \A i \in 1..Len(path) : path[i].difficulty # "beginner"

\* An advanced learner of the role, one course completed and one in
\* progress: the path has the stages intermediate (left empty by the course
\* in progress) and advanced (holding the advanced course).
C14_Witness ==
    /\ IsPath
    /\ result.data.level = "advanced"
    /\ result.data.completed_courses = {1}
    /\ result.data.in_progress_courses = {2}
    /\ \E c \in ActiveCourses : c.id = 2
    /\ Len(result.learning_path) = 2
    /\ result.learning_path[1].difficulty = "intermediate"
    /\ result.learning_path[1].courses = <<>>
    /\ Len(result.learning_path[2].courses) = 1

\* ---------------------------------------------------------------------
\* SpecPopular: the catalogs of SpecRecommend and one of seven active
\* courses; users enroll in and complete courses and the popular courses
\* are requested.
\* ---------------------------------------------------------------------
LargeCatalog ==
    Catalog(CatalogIds, {}) \cup
    {[id |-> 5, is_active |-> TRUE, category |-> "frontend", difficulty |-> "beginner"],
     [id |-> 6, is_active |-> TRUE, category |-> "frontend", difficulty |-> "advanced"],
     [id |-> 7, is_active |-> TRUE, category |-> "ai", difficulty |-> "advanced"]}

\* getPopularCourses() and getPopularCourses(n)
LimitInputs == {NULL, Some(1), Some(2)}

InitPopular ==
    /\ users = UserIds
    /\ courses \in CatalogCases \cup {LargeCatalog}
    /\ enrollments = {}
    /\ learning_logs = {}
    /\ dropout_analyses = {}
    /\ result = [stmt |-> "none", status |-> "ok"]
    /\ InitFrontend

NextPopular ==
    \/ \E id \in NewId(enrollments, RecommendEnrollments), u \in UserIds,
          c \in CatalogIds, s \in {Some("active"), Some("completed")} :
            InsertEnrollment(id, u, c, s, DefaultProgress)
    \/ \E id \in 1..RecommendEnrollments : DeleteEnrollment(id)
    \/ \E limit \in LimitInputs : GetPopularCourses(limit)

SpecPopular == InitPopular /\ [][NextPopular]_vars

IsPopular == result.stmt = "getPopularCourses"
LimitAsked == IF result.limit = NULL THEN 6 ELSE Val(result.limit)
Enrolled(c) == Cardinality({e.user_id : e \in EnrollmentsOf(c)})
\* 100 * completed / enrolled of course c is at least that of course k.
CompletesAtLeast(c, k) ==
    LET done(x) == Cardinality({e.user_id : e \in EnrollmentsWith(x, "completed")})
    IN  IF Enrolled(c) = 0 THEN done(k) = 0 \/ Enrolled(k) = 0
        ELSE Enrolled(k) = 0 \/ done(c) * Enrolled(k) >= done(k) * Enrolled(c)

C15_WitnessDefault ==
    /\ IsPopular
    /\ result.limit = NULL
    /\ Cardinality(ActiveCourses) = 7
    /\ Len(result.courses) = 6

\* ---------------------------------------------------------------------
\* useApi(apiFunction): the hook state, execute and reset
\* ---------------------------------------------------------------------
\* String(err) of a thrown value that is no Error.
StringOf(err) == IF err.type = "undefined" THEN "undefined" ELSE err.value

\* err instanceof Error ? err : new Error(String(err)).  A thrown value is
\* [type, value]; the value of an Error is its message.
ToError(err) ==
    IF err.type = "Error" THEN err
    ELSE [type |-> "Error", value |-> StringOf(err)]

\* What an execute call returns to its caller; prev is the hook state the
\* last setState of the call replaced.
Returned(id, settled, returns) ==
    [stmt |-> "execute", status |-> "returned", call |-> id,
     settled |-> settled, returns |-> returns, prev |-> state]

\* The execute call started last and what it wrote into the hook state when
\* it settled (NULL while it awaits): the bookkeeping of which call is the
\* latest, which the hook itself does not keep.
Started(id) == Some([id |-> id, wrote |-> NULL])

\* lastCall after call id settled writing the hook state `written`.
Settled(id, written) ==
    IF lastCall # NULL /\ Val(lastCall).id = id /\ Val(lastCall).wrote = NULL
    THEN Some([id |-> id, wrote |-> Some(written)])
    ELSE lastCall

\* execute(...args) up to its await: setState((prev) => ({ ...prev,
\* loading: true, error: null })) and the call of apiFunction.
Execute(id) ==
    /\ \A c \in calls : c.id # id
    /\ state' = [state EXCEPT !.loading = TRUE, !.error = NULL]
    /\ calls' = calls \cup {[id |-> id]}
    /\ lastCall' = Started(id)
    /\ result' = [stmt |-> "execute", status |-> "pending", call |-> id]
    /\ UNCHANGED <<tables, requests, pages>>

\* The promise of apiFunction resolves with r: setState({ data: result,
\* loading: false, error: null }); return result.
ApiResolves(id, r) ==
    /\ [id |-> id] \in calls
    /\ state' = [data |-> Some(r), loading |-> FALSE, error |-> NULL]
    /\ calls' = calls \ {[id |-> id]}
    /\ result' = Returned(id, [how |-> "resolved", with |-> [type |-> "value", value |-> r]],
                          Some(r))
    /\ lastCall' = Settled(id, state')
    /\ UNCHANGED <<tables, requests, pages>>

\* ApiRejects keeping the data of the state: setState((prev) => ({ ...prev,
\* loading: false, error })).
ApiRejects_Mutant(id, err) ==
    /\ [id |-> id] \in calls
    /\ state' = [state EXCEPT !.loading = FALSE, !.error = Some(ToError(err))]
    /\ calls' = calls \ {[id |-> id]}
    /\ result' = Returned(id, [how |-> "rejected", with |-> err], NULL)
    /\ lastCall' = Settled(id, state')
    /\ UNCHANGED <<tables, requests, pages>>

\* The promise of apiFunction rejects with err: setState({ data: null,
\* loading: false, error }); return null.
ApiRejects(id, err) ==
    /\ [id |-> id] \in calls
    /\ state' = [data |-> NULL, loading |-> FALSE, error |-> Some(ToError(err))]
    /\ calls' = calls \ {[id |-> id]}
    /\ result' = Returned(id, [how |-> "rejected", with |-> err], NULL)
    /\ lastCall' = Settled(id, state')
    /\ UNCHANGED <<tables, requests, pages>>

\* execute(...args) whose apiFunction throws err before it returns a
\* promise: the catch runs in the same turn.
ExecuteThrows(id, err) ==
    /\ \A c \in calls : c.id # id
    /\ state' = [data |-> NULL, loading |-> FALSE, error |-> Some(ToError(err))]
    /\ lastCall' = Some([id |-> id, wrote |-> Some(state')])
    /\ result' = Returned(id, [how |-> "threw", with |-> err], NULL)
    /\ UNCHANGED <<tables, calls, requests, pages>>

\* reset leaving the data in place.
Reset_Mutant ==
    /\ state' = [state EXCEPT !.loading = FALSE, !.error = NULL]
    /\ result' = [stmt |-> "reset", status |-> "ok", prev |-> state]
    /\ UNCHANGED <<tables, calls, lastCall, requests, pages>>

\* reset(): setState({ data: null, loading: false, error: null })
Reset ==
    /\ state' = [data |-> NULL, loading |-> FALSE, error |-> NULL]
    /\ result' = [stmt |-> "reset", status |-> "ok", prev |-> state]
    /\ UNCHANGED <<tables, calls, lastCall, requests, pages>>

\* ---------------------------------------------------------------------
\* SpecUseApi: a component calls execute and reset of one useApi hook in
\* any order while the API function settles the calls in any order.
\* ---------------------------------------------------------------------
\* Execute calls awaiting their API function at a time.
MaxCalls == 2

\* What the API function resolves with, and what it throws or rejects with.
Responses == {"r1", "r2"}
Failures == {[type |-> "Error", value |-> "API error"],
             [type |-> "string", value |-> "timeout"],
             [type |-> "undefined", value |-> ""]}

NextUseApi ==
    \/ \E id \in NewId(calls, MaxCalls) : Execute(id)
    \/ \E id \in 1..MaxCalls, r \in Responses : ApiResolves(id, r)
    \/ \E id \in 1..MaxCalls, err \in Failures : ApiRejects(id, err)
    \/ \E id \in NewId(calls, MaxCalls), err \in Failures : ExecuteThrows(id, err)
    \/ Reset

SpecUseApi == Init /\ [][NextUseApi]_vars

ExecuteReturned == result.stmt = "execute" /\ result.status = "returned"

\* ---------------------------------------------------------------------
\* C17  An execute call always returns: when the API function resolves
\* with r it returns r and leaves the hook state {data: r, loading: false,
\* error: null}; when the API function fails with e it returns null and
\* leaves {data: null, loading: false, error: e}, e wrapped in an Error
\* carrying String(e) when it is none, whatever data the state held.
\* ---------------------------------------------------------------------
C17_ExecuteSettles ==
    ExecuteReturned =>
        IF result.settled.how = "resolved"
        THEN /\ result.returns = Some(result.settled.with.value)
             /\ state = [data |-> result.returns, loading |-> FALSE,
                         error |-> NULL]
        ELSE /\ result.returns = NULL
             /\ state.data = NULL
             /\ state.loading = FALSE
             /\ state.error # NULL
             /\ Val(state.error).type = "Error"
             /\ result.settled.with.type = "Error"
                   => Val(state.error) = result.settled.with
             /\ result.settled.with.type = "string"
                   => Val(state.error).value = result.settled.with.value
             /\ result.settled.with.type = "undefined"
                   => Val(state.error).value = "undefined"

\* A call rejected with a string after an earlier call had left data: the
\* data is gone and the error is an Error with the string as message.
C17_Witness ==
    /\ ExecuteReturned
    /\ result.settled = [how |-> "rejected",
                         with |-> [type |-> "string", value |-> "timeout"]]
    /\ result.prev.data = Some("r1")
    /\ state = [data |-> NULL, loading |-> FALSE,
                error |-> Some([type |-> "Error", value |-> "timeout"])]

\* ---------------------------------------------------------------------
\* C18  loading is false before any call, and it is true whenever an
\* execute call has not yet settled.
\* ---------------------------------------------------------------------
C18_LoadingWhilePending ==
    /\ (result.stmt = "none" => state.loading = FALSE)
    /\ (calls # {} => state.loading = TRUE)

\* ---------------------------------------------------------------------
\* C19  reset leaves the hook state {data: null, loading: false, error:
\* null}, whatever the state was and whatever calls are pending.
\* ---------------------------------------------------------------------
C19_ResetRestoresInitial ==
    result.stmt = "reset" => state = InitialState

\* reset was called on a state holding data while a later call was
\* pending (loading true).
C19_Witness ==
    /\ result.stmt = "reset"
    /\ result.prev.data # NULL
    /\ result.prev.loading = TRUE
    /\ calls # {}
    /\ state = InitialState

\* ---------------------------------------------------------------------
\* C27  When several execute calls of one hook overlap, after all of them
\* have settled the data and the error of the hook are those the call
\* started last wrote, in whatever order the calls settled.
\* ---------------------------------------------------------------------
C27_LastStartedWins ==
    (calls = {} /\ ExecuteReturned) =>
        LET wrote == Val(Val(lastCall).wrote)
        IN  state.data = wrote.data /\ state.error = wrote.error

\* ---------------------------------------------------------------------
\* fetchApi(url, options): the fetch wrapper of the API client
\* ---------------------------------------------------------------------
\* response.ok: the status is in the range 200-299.
ResponseOk(response) == response.status >= 200 /\ response.status <= 299

\* response.json(): the body text parsed as JSON, or a failure to parse it.
\* An array is held as a tuple.
JsonParse(text) ==
    CASE text = "[]" -> [ok |-> TRUE, value |-> <<>>]
      [] text = "[[]]" -> [ok |-> TRUE, value |-> << <<>> >>]
      [] OTHER -> [ok |-> FALSE, value |-> <<>>]

\* new ApiError(`API request failed: ${response.statusText}`,
\* response.status, response.statusText)
ApiError(response) ==
    [name |-> "ApiError",
     message |-> <<"API request failed: ", response.statusText>>,
     status |-> Some(response.status),
     statusText |-> Some(response.statusText)]

\* An error that is no ApiError: the TypeError of a failed fetch, the
\* SyntaxError of response.json().
OtherError(name) ==
    [name |-> name, message |-> <<name>>, status |-> NULL, statusText |-> NULL]

\* fetchApi returning data, or throwing error, to its caller.
FetchApiReturns(r, data) ==
    [stmt |-> "fetchApi", status |-> "returned", call |-> r.id, url |-> r.url,
     fetches |-> r.fetches, response |-> r.response, returns |-> data]
FetchApiThrows(r, response, error) ==
    [stmt |-> "fetchApi", status |-> "threw", call |-> r.id, url |-> r.url,
     fetches |-> r.fetches, response |-> response, error |-> error]

\* fetchApi(url) up to its first await: fetch(url, options) is called.
CallFetchApi(id, url) ==
    /\ \A r \in requests : r.id # id
    /\ requests' = requests \cup
          {[id |-> id, url |-> url, awaiting |-> "fetch", fetches |-> 1,
            response |-> NULL]}
    /\ result' = [stmt |-> "fetchApi", status |-> "pending", call |-> id]
    /\ UNCHANGED <<tables, state, calls, lastCall, pages>>

\* FetchResolves fetching the url once more when the first response is not ok.
FetchResolves_Mutant(id, response) ==
    \E r \in requests :
        /\ r.id = id /\ r.awaiting = "fetch"
        /\ IF ~ResponseOk(response) /\ r.fetches < 2
           THEN /\ requests' = (requests \ {r}) \cup
                      {[r EXCEPT !.fetches = r.fetches + 1]}
                /\ result' = [stmt |-> "fetchApi", status |-> "pending", call |-> id]
           ELSE IF ~ResponseOk(response)
           THEN /\ requests' = requests \ {r}
                /\ result' = FetchApiThrows(r, Some(response), ApiError(response))
           ELSE /\ requests' = (requests \ {r}) \cup
                      {[r EXCEPT !.awaiting = "json", !.response = Some(response)]}
                /\ result' = [stmt |-> "fetchApi", status |-> "pending", call |-> id]
        /\ UNCHANGED <<tables, state, calls, lastCall, pages>>

\* The fetch of a call resolves with a response: if (!response.ok) throw
\* new ApiError(...), else response.json() is awaited.
FetchResolves(id, response) ==
    \E r \in requests :
        /\ r.id = id /\ r.awaiting = "fetch"
        /\ IF ~ResponseOk(response)
           THEN /\ requests' = requests \ {r}
                /\ result' = FetchApiThrows(r, Some(response), ApiError(response))
           ELSE /\ requests' = (requests \ {r}) \cup
                      {[r EXCEPT !.awaiting = "json", !.response = Some(response)]}
                /\ result' = [stmt |-> "fetchApi", status |-> "pending", call |-> id]
        /\ UNCHANGED <<tables, state, calls, lastCall, pages>>

\* The fetch of a call rejects (no response from the network): the
\* rejection leaves fetchApi as it came.
FetchRejects(id) ==
    \E r \in requests :
        /\ r.id = id /\ r.awaiting = "fetch"
        /\ requests' = requests \ {r}
        /\ result' = FetchApiThrows(r, NULL, OtherError("TypeError"))
        /\ UNCHANGED <<tables, state, calls, lastCall, pages>>

\* response.json() settles: const data = await response.json();
\* return data as T
JsonSettles(id) ==
    \E r \in requests :
        /\ r.id = id /\ r.awaiting = "json"
        /\ requests' = requests \ {r}
        /\ LET parsed == JsonParse(Val(r.response).body)
           IN  result' = IF parsed.ok
                         THEN FetchApiReturns(r, parsed.value)
                         ELSE FetchApiThrows(r, r.response,
                                             OtherError("SyntaxError"))
        /\ UNCHANGED <<tables, state, calls, lastCall, pages>>

\* ---------------------------------------------------------------------
\* SpecFetchApi: callers (a page load, a click, the retry button of an
\* error message) call fetchApi; the network answers in any order.
\* ---------------------------------------------------------------------
\* fetchApi calls awaiting the network at a time.
MaxRequests == 2

UrlInputs == {"/api/analysis/courses", "/api/courses/"}
ResponseInputs ==
    {[status |-> 200, statusText |-> "OK", body |-> "[]"],
     [status |-> 200, statusText |-> "OK", body |-> "<html>"],
     [status |-> 404, statusText |-> "Not Found", body |-> "[]"],
     [status |-> 500, statusText |-> "Internal Server Error", body |-> ""]}

NextFetchApi ==
    \/ \E id \in NewId(requests, MaxRequests), url \in UrlInputs :
            CallFetchApi(id, url)
    \/ \E id \in 1..MaxRequests, response \in ResponseInputs :
            FetchResolves(id, response)
    \/ \E id \in 1..MaxRequests : FetchRejects(id)
    \/ \E id \in 1..MaxRequests : JsonSettles(id)

SpecFetchApi == Init /\ [][NextFetchApi]_vars

FetchApiSettled == result.stmt = "fetchApi" /\ result.status # "pending"

\* ---------------------------------------------------------------------
\* C20  A call of fetchApi performs exactly one fetch.  When the response
\* is not ok it throws an ApiError carrying the status and statusText of
\* the response; when the response is ok it returns the parsed body (a body
\* that does not parse, and a fetch that fails, are thrown to the caller
\* as they are).  No failure makes fetchApi fetch again: another fetch takes
\* another call.
\* ---------------------------------------------------------------------
C20_FetchApiSurfaces ==
    /\ \A r \in requests : r.fetches = 1
    /\ FetchApiSettled =>
          /\ result.fetches = 1
          /\ IF result.response = NULL
             THEN result.status = "threw" /\ result.error.name # "ApiError"
             ELSE LET response == Val(result.response)
                  IN  IF response.status < 200 \/ response.status > 299
                      THEN /\ result.status = "threw"
                           /\ result.error.name = "ApiError"
                           /\ result.error.status = Some(response.status)
                           /\ result.error.statusText = Some(response.statusText)
                      ELSE IF JsonParse(response.body).ok
                      THEN /\ result.status = "returned"
                           /\ result.returns = JsonParse(response.body).value
                      ELSE /\ result.status = "threw"
                           /\ result.error.name = "SyntaxError"

\* A call answered 404 threw its ApiError after one fetch, while another
\* call, made since, awaits its own fetch.
C20_Witness ==
    /\ FetchApiSettled
    /\ result.status = "threw"
    /\ result.error.name = "ApiError"
    /\ result.error.status = Some(404)
    /\ result.error.statusText = Some("Not Found")
    /\ result.fetches = 1
    /\ \E r \in requests : r.url = result.url /\ r.awaiting = "fetch"

\* ---------------------------------------------------------------------
\* Numbers of the page scripts.  A JavaScript number is held as the exact
\* quotient num/den when it is finite, and as NaN or Infinity otherwise.
\* ---------------------------------------------------------------------
Finite(num, den) == [kind |-> "finite", num |-> num, den |-> den]
NaN == [kind |-> "NaN", num |-> 0, den |-> 1]
Infinity == [kind |-> "Infinity", num |-> 0, den |-> 1]

\* a / b of two non-negative integers: 0 / 0 is NaN, a / 0 is Infinity.
JsDivide(a, b) ==
    IF b # 0 THEN Finite(a, b)
    ELSE IF a = 0 THEN NaN ELSE Infinity

\* x * 100
JsTimes100(x) ==
    IF x.kind = "finite" THEN Finite(100 * x.num, x.den) ELSE x

\* Math.round(x) of a non-negative number: NaN and Infinity stay.
JsMathRound(x) ==
    IF x.kind = "finite" THEN Finite(RoundDiv(x.num, x.den), 1) ELSE x

\* Number.isFinite(x)
IsFiniteNumber(x) == x.kind = "finite"

\* ---------------------------------------------------------------------
\* CoursesPage: the course list, the selected course and its detail
\* ---------------------------------------------------------------------
\* err instanceof Error ? err : new Error(message)
ToErrorOr(err, message) ==
    IF err.type = "Error" THEN err ELSE [type |-> "Error", value |-> message]

\* The messages of the course page (in the source they are in Korean).
CourseListFailed == "failed to load the course list"
CourseDetailFailed == "failed to load the course detail"

\* An API call of a page handler that awaits its response.
ApiCall(id, api, course_id) == [id |-> id, api |-> api, course_id |-> course_id]

\* The ids of the calls in flight.
PendingIds == {c.id : c \in pending}

\* The useState fields of CoursesPage when it mounts.
CoursesPageMounted ==
    [name |-> "CoursesPage", courses |-> <<>>, selectedCourseId |-> NULL,
     detail |-> NULL, loading |-> TRUE, error |-> NULL]

\* What CoursesPage renders: the loading screen, the error screen with its
\* retry button, or the course list with the cards of the detail.
CoursesPageView ==
    IF page.loading THEN "loading"
    ELSE IF page.error # NULL /\ Len(page.courses) = 0 THEN "error"
    ELSE "main"

\* selectCourse(courseId) up to its await, applied to the fields p:
\* setSelectedCourseId(courseId); setError(null).
CoursesSelectStart(p, courseId) ==
    [p EXCEPT !.selectedCourseId = Some(courseId), !.error = NULL]

\* loadCourses() up to its await: setError(null) and the call of
\* coursesApi.getList().  It runs in the effect of the mount and on the
\* retry button of the error screen.
CoursesLoadCourses(id) ==
    /\ page.name = "CoursesPage"
    /\ CoursesPageView = "error"
    /\ id \notin PendingIds
    /\ page' = [page EXCEPT !.error = NULL]
    /\ pending' = pending \cup {ApiCall(id, "getList", NULL)}
    /\ result' = [stmt |-> "loadCourses", status |-> "pending"]
    /\ UNCHANGED <<tables, hooks>>

\* coursesApi.getList() resolves with data: setCourses(data); with a
\* non-empty list selectCourse(data[0].course_id) runs up to its await;
\* finally setLoading(false).  The getDetail call takes the id the getList
\* call gives up.
CoursesListResolves(id, data) ==
    /\ page.name = "CoursesPage"
    /\ ApiCall(id, "getList", NULL) \in pending
    /\ LET loaded == [page EXCEPT !.courses = data, !.loading = FALSE]
       IN  IF Len(data) > 0
           THEN /\ page' = CoursesSelectStart(loaded, data[1])
                /\ pending' = (pending \ {ApiCall(id, "getList", NULL)})
                                 \cup {ApiCall(id, "getDetail", Some(data[1]))}
           ELSE /\ page' = loaded
                /\ pending' = pending \ {ApiCall(id, "getList", NULL)}
    /\ result' = [stmt |-> "loadCourses", status |-> "ok"]
    /\ UNCHANGED <<tables, hooks>>

\* coursesApi.getList() rejects with err: setError(error); finally
\* setLoading(false).
CoursesListRejects(id, err) ==
    /\ page.name = "CoursesPage"
    /\ ApiCall(id, "getList", NULL) \in pending
    /\ page' = [page EXCEPT !.error = Some(ToErrorOr(err, CourseListFailed)),
                            !.loading = FALSE]
    /\ pending' = pending \ {ApiCall(id, "getList", NULL)}
    /\ result' = [stmt |-> "loadCourses", status |-> "failed"]
    /\ UNCHANGED <<tables, hooks>>

\* A click on a course of the list: selectCourse(courseId) up to its await,
\* the call of coursesApi.getDetail(courseId).
CoursesSelectCourse(id, courseId) ==
    /\ page.name = "CoursesPage"
    /\ CoursesPageView = "main"
    /\ \E i \in 1..Len(page.courses) : page.courses[i] = courseId
    /\ id \notin PendingIds
    /\ page' = CoursesSelectStart(page, courseId)
    /\ pending' = pending \cup {ApiCall(id, "getDetail", Some(courseId))}
    /\ result' = [stmt |-> "selectCourse", status |-> "pending",
                  course_id |-> courseId]
    /\ UNCHANGED <<tables, hooks>>

\* coursesApi.getDetail(courseId) resolves with data: setDetail(data).
CoursesDetailResolves(id, data) ==
    /\ page.name = "CoursesPage"
    /\ ApiCall(id, "getDetail", Some(data.course_id)) \in pending
    /\ page' = [page EXCEPT !.detail = Some(data)]
    /\ pending' = pending \ {ApiCall(id, "getDetail", Some(data.course_id))}
    /\ result' = [stmt |-> "selectCourse", status |-> "ok",
                  course_id |-> data.course_id]
    /\ UNCHANGED <<tables, hooks>>

\* coursesApi.getDetail(courseId) rejects with err: setError(error).
CoursesDetailRejects(id, courseId, err) ==
    /\ page.name = "CoursesPage"
    /\ ApiCall(id, "getDetail", Some(courseId)) \in pending
    /\ page' = [page EXCEPT !.error = Some(ToErrorOr(err, CourseDetailFailed))]
    /\ pending' = pending \ {ApiCall(id, "getDetail", Some(courseId))}
    /\ result' = [stmt |-> "selectCourse", status |-> "failed",
                  course_id |-> courseId]
    /\ UNCHANGED <<tables, hooks>>

\* const percent = total > 0 ? (value / total) * 100 : 0 of
\* createMiniDoughnutData(value, total), which picks the colour of the ring.
createMiniDoughnutData(value, total) ==
    IF total > 0 THEN JsTimes100(JsDivide(value, total)) ELSE Finite(0, 1)

\* Math.round((value / detail.enrollment_metrics.total_enrollments) * 100),
\* the label under a ring.
miniDoughnutLabel(value, total) ==
    JsMathRound(JsTimes100(JsDivide(value, total)))

\* const funnelMax = detail?.funnel_data[0]?.count || 1
funnelMax(detail) ==
    IF detail = NULL THEN 1
    ELSE IF Len(Val(detail).funnel_data) = 0 THEN 1
    ELSE IF Val(detail).funnel_data[1].count = 0 THEN 1
    ELSE Val(detail).funnel_data[1].count

\* const widthPercent = (step.count / funnelMax) * 100 of every step.
widthPercent(detail) ==
    [i \in 1..Len(Val(detail).funnel_data) |->
        JsTimes100(JsDivide(Val(detail).funnel_data[i].count, funnelMax(detail)))]

\* The percentages the page derives from the detail it holds.
CoursesPagePercentages ==
    LET d == Val(page.detail)
        total == d.enrollment_metrics.total_enrollments
    IN  [watched |-> miniDoughnutLabel(d.enrollment_metrics.watched_at_least_once, total),
         reached50 |-> miniDoughnutLabel(d.progress_metrics.reached_50_percent, total),
         completed |-> miniDoughnutLabel(d.progress_metrics.completed, total),
         rings |-> <<createMiniDoughnutData(total, total),
                     createMiniDoughnutData(d.enrollment_metrics.watched_at_least_once, total),
                     createMiniDoughnutData(d.progress_metrics.reached_50_percent, total),
                     createMiniDoughnutData(d.progress_metrics.completed, total)>>,
         widths |-> widthPercent(page.detail)]

\* ---------------------------------------------------------------------
\* SpecCoursesPage: the course page is mounted and loads the list; the
\* user clicks courses and retries while the server answers each call, in
\* any order, with a detail of the course or with a failure.
\* ---------------------------------------------------------------------
\* Largest total_enrollments of a detail, and calls in flight at a time.
MaxTotal == 2
MaxPending == 2

\* The course lists and the details the server answers with: the funnel of
\* a detail narrows from the enrollments to the completions.
CourseListInputs == {<<>>, <<1>>, <<1, 2>>}
CourseDetail(c, t, w, r, k) ==
    [course_id |-> c,
     enrollment_metrics |-> [total_enrollments |-> t, watched_at_least_once |-> w],
     progress_metrics |-> [reached_50_percent |-> r, completed |-> k],
     funnel_data |-> <<[count |-> t], [count |-> w], [count |-> r], [count |-> k]>>]
DetailInputs(c) ==
    {CourseDetail(c, t, w, r, k) :
        <<t, w, r, k>> \in {q \in (0..MaxTotal) \X (0..MaxTotal) \X (0..MaxTotal) \X (0..MaxTotal) :
                               q[4] <= q[3] /\ q[3] <= q[2] /\ q[2] <= q[1]}}
PageFailures == {[type |-> "Error", value |-> "HTTP error! status: 500"],
                 [type |-> "string", value |-> "timeout"]}

InitCoursesPage ==
    /\ users = {}
    /\ courses = {}
    /\ enrollments = {}
    /\ learning_logs = {}
    /\ dropout_analyses = {}
    /\ result = [stmt |-> "loadCourses", status |-> "pending"]
    /\ InitHooks
    /\ page = CoursesPageMounted
    /\ pending = {ApiCall(1, "getList", NULL)}

NextCoursesPage ==
    \/ \E id \in NewId(pending, MaxPending) : CoursesLoadCourses(id)
    \/ \E id \in 1..MaxPending, data \in CourseListInputs :
           CoursesListResolves(id, data)
    \/ \E id \in 1..MaxPending, err \in PageFailures : CoursesListRejects(id, err)
    \/ \E id \in NewId(pending, MaxPending), c \in {1, 2} : CoursesSelectCourse(id, c)
    \/ \E id \in 1..MaxPending, c \in {1, 2} : \E data \in DetailInputs(c) :
           CoursesDetailResolves(id, data)
    \/ \E id \in 1..MaxPending, c \in {1, 2}, err \in PageFailures :
           CoursesDetailRejects(id, c, err)

SpecCoursesPage == InitCoursesPage /\ [][NextCoursesPage]_vars

DetailShown == page.name = "CoursesPage" /\ CoursesPageView = "main" /\ page.detail # NULL

\* ---------------------------------------------------------------------
\* C21  For a course whose detail has total_enrollments = 0, every
\* percentage the course page derives (watched at least once, reached 50%,
\* completed, the rings, the funnel bar widths) is a finite number, never
\* NaN or Infinity.
\* ---------------------------------------------------------------------
C21_PercentagesAreNumbers ==
    (DetailShown /\ Val(page.detail).enrollment_metrics.total_enrollments = 0) =>
        LET shown == CoursesPagePercentages
        IN  /\ IsFiniteNumber(shown.watched)
            /\ IsFiniteNumber(shown.reached50)
            /\ IsFiniteNumber(shown.completed)
            /\ \A i \in 1..Len(shown.rings) : IsFiniteNumber(shown.rings[i])
            /\ \A i \in 1..Len(shown.widths) : IsFiniteNumber(shown.widths[i])

\* ---------------------------------------------------------------------
\* C22  On the course page, for any sequence of course selections and any
\* order in which the responses arrive, once no request is in flight (and
\* none has failed since the last selection) the detail displayed is that
\* of the currently selected course.
\* ---------------------------------------------------------------------
C22_ShowsSelectedCourse ==
    (DetailShown /\ pending = {} /\ page.error = NULL) =>
        Some(Val(page.detail).course_id) = page.selectedCourseId

\* ---------------------------------------------------------------------
\* DropoutPage: the course list, the selected course and its analysis
\* ---------------------------------------------------------------------
\* The messages of the dropout page (in the source they are in Korean).
AnalysisListFailed == "failed to load the course list"
AnalysisDataFailed == "failed to load the course data"

\* The four calls selectCourse awaits with Promise.all: getSummary,
\* getChartData, getDangerZones, getReasons.
Parts == {"summary", "chartData", "dangerZones", "reasons"}

\* The answer of the server to one of the four calls for course c.  The
\* page keeps the answer as it comes; what the model keeps of it is which
\* call for which course it answers (two answers to the same call for the
\* same course are alike: the data of the server does not change here).
AnswerOf(part, c) == [part |-> part, course_id |-> c]

\* A selectCourse call that awaits Promise.all, and the calls of the four
\* that have been answered; a loadCourses call that awaits getCourses.
AllCall(id, api, course_id, answered) ==
    [id |-> id, api |-> api, course_id |-> course_id, answered |-> answered]

\* The useState fields of DropoutPage when it mounts (dangerZones and
\* reasons start as [], held as NULL like the two that start as null: no
\* answer is on screen).
DropoutPageMounted ==
    [name |-> "DropoutPage", courses |-> <<>>, selectedCourseId |-> NULL,
     summary |-> NULL, chartData |-> NULL, dangerZones |-> NULL,
     reasons |-> NULL, loading |-> TRUE, error |-> NULL]

\* What DropoutPage renders: the loading screen, the error screen with its
\* retry button, or the dashboard.
DropoutPageView ==
    IF page.loading THEN "loading"
    ELSE IF page.error # NULL /\ Len(page.courses) = 0 THEN "error"
    ELSE "main"

\* selectCourse(courseId) up to its await, applied to the fields p:
\* setSelectedCourseId(courseId); setError(null).
DropoutSelectStart(p, courseId) ==
    [p EXCEPT !.selectedCourseId = Some(courseId), !.error = NULL]

\* loadCourses() on the retry button of the error screen, up to its await:
\* setError(null) and the call of analysisApi.getCourses().
DropoutLoadCourses(id) ==
    /\ page.name = "DropoutPage"
    /\ DropoutPageView = "error"
    /\ id \notin PendingIds
    /\ page' = [page EXCEPT !.error = NULL]
    /\ pending' = pending \cup {AllCall(id, "getCourses", NULL, {})}
    /\ result' = [stmt |-> "loadCourses", status |-> "pending"]
    /\ UNCHANGED <<tables, hooks>>

\* analysisApi.getCourses() resolves with data: setCourses(data.courses);
\* with a non-empty list selectCourse(data.courses[0].course_id) runs up to
\* its await; finally setLoading(false).  The selectCourse call takes the id
\* the getCourses call gives up.
DropoutListResolves(id, data) ==
    /\ page.name = "DropoutPage"
    /\ AllCall(id, "getCourses", NULL, {}) \in pending
    /\ LET loaded == [page EXCEPT !.courses = data, !.loading = FALSE]
           rest == pending \ {AllCall(id, "getCourses", NULL, {})}
       IN  IF Len(data) > 0
           THEN /\ page' = DropoutSelectStart(loaded, data[1])
                /\ pending' = rest \cup {AllCall(id, "selectCourse", Some(data[1]), {})}
           ELSE /\ page' = loaded
                /\ pending' = rest
    /\ result' = [stmt |-> "loadCourses", status |-> "ok"]
    /\ UNCHANGED <<tables, hooks>>

\* analysisApi.getCourses() rejects with err: setError(error); finally
\* setLoading(false).
DropoutListRejects(id, err) ==
    /\ page.name = "DropoutPage"
    /\ AllCall(id, "getCourses", NULL, {}) \in pending
    /\ page' = [page EXCEPT !.error = Some(ToErrorOr(err, AnalysisListFailed)),
                            !.loading = FALSE]
    /\ pending' = pending \ {AllCall(id, "getCourses", NULL, {})}
    /\ result' = [stmt |-> "loadCourses", status |-> "failed"]
    /\ UNCHANGED <<tables, hooks>>

\* A click on a course of the sidebar: selectCourse(courseId) up to its
\* await, the four calls of Promise.all.
DropoutSelectCourse(id, courseId) ==
    /\ page.name = "DropoutPage"
    /\ DropoutPageView = "main"
    /\ \E i \in 1..Len(page.courses) : page.courses[i] = courseId
    /\ id \notin PendingIds
    /\ page' = DropoutSelectStart(page, courseId)
    /\ pending' = pending \cup {AllCall(id, "selectCourse", Some(courseId), {})}
    /\ result' = [stmt |-> "selectCourse", status |-> "pending",
                  course_id |-> courseId]
    /\ UNCHANGED <<tables, hooks>>

\* DropoutPartResolves writing every answer into its field as it arrives,
\* without Promise.all.
DropoutPartResolves_Mutant(id, part) ==
    /\ page.name = "DropoutPage"
    /\ \E call \in pending :
          /\ call.id = id
          /\ call.api = "selectCourse"
          /\ part \notin call.answered
          /\ LET c == Val(call.course_id)
                 answered == call.answered \cup {part}
             IN  /\ page' = [page EXCEPT ![part] = Some(AnswerOf(part, c))]
                 /\ IF answered = Parts
                    THEN /\ pending' = pending \ {call}
                         /\ result' = [stmt |-> "selectCourse", status |-> "ok",
                                       course_id |-> c]
                    ELSE /\ pending' = (pending \ {call})
                                          \cup {[call EXCEPT !.answered = answered]}
                         /\ result' = [stmt |-> "selectCourse", status |-> "pending",
                                       course_id |-> c]
    /\ UNCHANGED <<tables, hooks>>

\* One of the four calls of a selectCourse call is answered.  Promise.all
\* resolves when the last of the four is: setSummary(summaryData);
\* setChartData(chartDataRes); setDangerZones(dangerZonesRes.danger_zones);
\* setReasons(reasonsRes.reasons), in one turn of the event loop.
DropoutPartResolves(id, part) ==
    /\ page.name = "DropoutPage"
    /\ \E call \in pending :
          /\ call.id = id
          /\ call.api = "selectCourse"
          /\ part \notin call.answered
          /\ LET c == Val(call.course_id)
                 answered == call.answered \cup {part}
             IN  IF answered = Parts
                 THEN /\ page' = [page EXCEPT
                                    !.summary = Some(AnswerOf("summary", c)),
                                    !.chartData = Some(AnswerOf("chartData", c)),
                                    !.dangerZones = Some(AnswerOf("dangerZones", c)),
                                    !.reasons = Some(AnswerOf("reasons", c))]
                      /\ pending' = pending \ {call}
                      /\ result' = [stmt |-> "selectCourse", status |-> "ok",
                                    course_id |-> c]
                 ELSE /\ page' = page
                      /\ pending' = (pending \ {call})
                                       \cup {[call EXCEPT !.answered = answered]}
                      /\ result' = [stmt |-> "selectCourse", status |-> "pending",
                                    course_id |-> c]
    /\ UNCHANGED <<tables, hooks>>

\* One of the four calls of a selectCourse call fails with err: Promise.all
\* rejects at once, whatever the other three do: setError(error).
DropoutPartRejects(id, part, err) ==
    /\ page.name = "DropoutPage"
    /\ \E call \in pending :
          /\ call.id = id
          /\ call.api = "selectCourse"
          /\ part \notin call.answered
          /\ page' = [page EXCEPT !.error = Some(ToErrorOr(err, AnalysisDataFailed))]
          /\ pending' = pending \ {call}
          /\ result' = [stmt |-> "selectCourse", status |-> "failed",
                        course_id |-> Val(call.course_id)]
    /\ UNCHANGED <<tables, hooks>>

\* ---------------------------------------------------------------------
\* SpecDropoutPage: the dropout page is mounted and loads the list; the
\* user clicks courses and retries while the server answers every call, in
\* any order, or fails it.
\* ---------------------------------------------------------------------
AnalysisListInputs == {<<>>, <<1, 2>>}

InitDropoutPage ==
    /\ users = {}
    /\ courses = {}
    /\ enrollments = {}
    /\ learning_logs = {}
    /\ dropout_analyses = {}
    /\ result = [stmt |-> "loadCourses", status |-> "pending"]
    /\ InitHooks
    /\ page = DropoutPageMounted
    /\ pending = {AllCall(1, "getCourses", NULL, {})}

NextDropoutPage ==
    \/ \E id \in NewId(pending, MaxPending) : DropoutLoadCourses(id)
    \/ \E id \in 1..MaxPending, data \in AnalysisListInputs :
           DropoutListResolves(id, data)
    \/ \E id \in 1..MaxPending, err \in PageFailures : DropoutListRejects(id, err)
    \/ \E id \in NewId(pending, MaxPending), c \in {1, 2} : DropoutSelectCourse(id, c)
    \/ \E id \in 1..MaxPending, part \in Parts : DropoutPartResolves(id, part)
    \/ \E id \in 1..MaxPending, part \in Parts, err \in PageFailures :
           DropoutPartRejects(id, part, err)

SpecDropoutPage == InitDropoutPage /\ [][NextDropoutPage]_vars

IsDropoutPage == page.name = "DropoutPage"
Displayed == {page[part] : part \in Parts}

\* ---------------------------------------------------------------------
\* C23  On the dropout page the summary, the chart data, the danger zones
\* and the dropout reasons displayed at any time all answer the calls of
\* one selectCourse for one course, or none of them is displayed: no
\* interleaving of selections, answers and failures leaves the four from
\* different courses or only some of the four updated.
\* ---------------------------------------------------------------------
C23_FourFromOneRequest ==
    IsDropoutPage =>
        \/ Displayed = {NULL}
        \/ \E c \in {1, 2} :
               \A part \in Parts : page[part] = Some(AnswerOf(part, c))

\* The four answers of course 1 are on screen while the calls of a later
\* selection of course 2 are partly answered.
C23_Witness ==
    /\ IsDropoutPage
    /\ page.selectedCourseId = Some(2)
    /\ \A part \in Parts : page[part] # NULL /\ Val(page[part]).course_id = 1
    /\ \E call \in pending : call.course_id = Some(2) /\ call.answered = {"summary", "reasons"}

\* ---------------------------------------------------------------------
\* C24  When loading the data of a selected course fails while the course
\* list is non-empty, the dropout page shows an error message instead of
\* keeping the previous data on screen without notice.
\* ---------------------------------------------------------------------
C24_FailureIsShown ==
    (/\ IsDropoutPage
     /\ result.stmt = "selectCourse"
     /\ result.status = "failed"
     /\ Len(page.courses) > 0) => DropoutPageView = "error"

\* ---------------------------------------------------------------------
\* RecommendPage: the three tabs, their forms and their result lists
\* ---------------------------------------------------------------------
TabTypes == {"quick", "path", "popular"}

\* The messages of the recommend page (in the source they are in Korean).
RecommendFailed(api) ==
    IF api = "getQuickRecommendations" THEN "failed to load the recommendations"
    ELSE IF api = "getLearningPath" THEN "failed to load the learning path"
    ELSE "failed to load the popular courses"

\* The useState fields of RecommendPage when it mounts.
RecommendPageMounted ==
    [name |-> "RecommendPage", activeTab |-> "quick", role |-> "backend",
     level |-> "beginner", pathRole |-> "backend", recommendations |-> <<>>,
     learningPath |-> <<>>, popularCourses |-> <<>>, loading |-> FALSE,
     error |-> NULL]

\* A call of recommendApi that awaits its response, with the values of the
\* form it sent.
RecommendCall(id, api, args) == [id |-> id, api |-> api, args |-> args]

\* setRole, setLevel, setPathRole: the <select>s of the forms.
SetRole(r) ==
    /\ page.name = "RecommendPage"
    /\ page.activeTab = "quick"
    /\ page' = [page EXCEPT !.role = r]
    /\ result' = [stmt |-> "setRole", status |-> "ok", by |-> "user"]
    /\ UNCHANGED <<tables, hooks, pending>>

SetLevel(l) ==
    /\ page.name = "RecommendPage"
    /\ page.activeTab = "quick"
    /\ page' = [page EXCEPT !.level = l]
    /\ result' = [stmt |-> "setLevel", status |-> "ok", by |-> "user"]
    /\ UNCHANGED <<tables, hooks, pending>>

SetPathRole(r) ==
    /\ page.name = "RecommendPage"
    /\ page.activeTab = "path"
    /\ page' = [page EXCEPT !.pathRole = r]
    /\ result' = [stmt |-> "setPathRole", status |-> "ok", by |-> "user"]
    /\ UNCHANGED <<tables, hooks, pending>>

\* switchTab that also ends the loading: setLoading(false).
SwitchTab_Mutant(tab) ==
    /\ page.name = "RecommendPage"
    /\ page' = [page EXCEPT !.activeTab = tab, !.recommendations = <<>>,
                            !.learningPath = <<>>, !.popularCourses = <<>>,
                            !.error = NULL, !.loading = FALSE]
    /\ result' = [stmt |-> "switchTab", status |-> "ok", by |-> "user"]
    /\ UNCHANGED <<tables, hooks, pending>>

\* switchTab(tab): setActiveTab(tab); setRecommendations([]);
\* setLearningPath([]); setPopularCourses([]); setError(null).
SwitchTab(tab) ==
    /\ page.name = "RecommendPage"
    /\ page' = [page EXCEPT !.activeTab = tab, !.recommendations = <<>>,
                            !.learningPath = <<>>, !.popularCourses = <<>>,
                            !.error = NULL]
    /\ result' = [stmt |-> "switchTab", status |-> "ok", by |-> "user"]
    /\ UNCHANGED <<tables, hooks, pending>>

\* The handler of the submit button of a tab, which is the handler its
\* retry button is given: getRecommendations, getLearningPath or
\* getPopularCourses.
HandlerOf(tab) ==
    IF tab = "quick" THEN "getRecommendations"
    ELSE IF tab = "path" THEN "getLearningPath"
    ELSE "getPopularCourses"

\* getRecommendations(), getLearningPath() and getPopularCourses() up to
\* their await: setLoading(true); setError(null) and the call of
\* recommendApi with the values of the form.
StartHandler(id, how) ==
    LET handler == HandlerOf(page.activeTab)
        call == IF handler = "getRecommendations"
                THEN RecommendCall(id, "getQuickRecommendations", <<page.role, page.level>>)
                ELSE IF handler = "getLearningPath"
                THEN RecommendCall(id, "getLearningPath", <<page.pathRole>>)
                ELSE RecommendCall(id, "getPopularCourses", <<>>)
    IN  /\ id \notin PendingIds
        /\ page' = [page EXCEPT !.loading = TRUE, !.error = NULL]
        /\ pending' = pending \cup {call}
        /\ result' = [stmt |-> handler, status |-> "pending", by |-> how]
        /\ UNCHANGED <<tables, hooks>>

\* disabled={loading} of the three submit buttons.
SubmitDisabled == page.loading

\* {error && <ErrorMessage ... onRetry={...} />}: the retry button.
RetryOffered == page.error # NULL

\* A click on the submit button of the active tab.
ClickSubmit(id) ==
    /\ page.name = "RecommendPage"
    /\ ~SubmitDisabled
    /\ StartHandler(id, "submit")

\* A click on the retry button of the error message.
ClickRetry(id) ==
    /\ page.name = "RecommendPage"
    /\ RetryOffered
    /\ StartHandler(id, "retry")

\* The response of the server to a call: the page sends completed_courses:
\* [] with a quick request; level 'beginner' and empty lists with a path
\* request; the limit 6 with a popular request.
RecommendResponse(call) ==
    IF call.api = "getQuickRecommendations"
    THEN quick_recommend(call.args[1], call.args[2], {})
    ELSE IF call.api = "getLearningPath"
    THEN build_learning_path("beginner", call.args[1], {}, {}, {})
    ELSE popular_courses(getPopularCoursesLimit(Some(6)))

\* The call resolves with data: setRecommendations(data.recommendations),
\* setLearningPath(data.learning_path) or setPopularCourses(data.courses);
\* finally setLoading(false).
RecommendResolves(id) ==
    /\ page.name = "RecommendPage"
    /\ \E call \in pending :
          /\ call.id = id
          /\ page' = IF call.api = "getQuickRecommendations"
                     THEN [page EXCEPT !.recommendations = RecommendResponse(call),
                                       !.loading = FALSE]
                     ELSE IF call.api = "getLearningPath"
                     THEN [page EXCEPT !.learningPath = RecommendResponse(call),
                                       !.loading = FALSE]
                     ELSE [page EXCEPT !.popularCourses = RecommendResponse(call),
                                       !.loading = FALSE]
          /\ pending' = pending \ {call}
          /\ result' = [stmt |-> call.api, status |-> "ok", by |-> "server"]
    /\ UNCHANGED <<tables, hooks>>

\* The call rejects with err: setError(error); finally setLoading(false).
RecommendRejects(id, err) ==
    /\ page.name = "RecommendPage"
    /\ \E call \in pending :
          /\ call.id = id
          /\ page' = [page EXCEPT
                        !.error = Some(ToErrorOr(err, RecommendFailed(call.api))),
                        !.loading = FALSE]
          /\ pending' = pending \ {call}
          /\ result' = [stmt |-> call.api, status |-> "failed", by |-> "server"]
    /\ UNCHANGED <<tables, hooks>>

\* ---------------------------------------------------------------------
\* SpecRecommendPage: the recommend page over an empty or a full catalog;
\* the user switches tabs, changes the forms, clicks the submit and retry
\* buttons while the server answers or fails the calls.
\* ---------------------------------------------------------------------
InitRecommendPage ==
    /\ users = UserIds
    /\ courses \in {Catalog({}, {}), Catalog(CatalogIds, {})}
    /\ enrollments = {}
    /\ learning_logs = {}
    /\ dropout_analyses = {}
    /\ result = [stmt |-> "none", status |-> "ok", by |-> "none"]
    /\ InitHooks
    /\ page = RecommendPageMounted
    /\ pending = {}

NextRecommendPage ==
    \/ \E r \in {"backend", "devops"} : SetRole(r)
    \/ \E l \in {"beginner", "advanced"} : SetLevel(l)
    \/ \E r \in {"backend", "data"} : SetPathRole(r)
    \/ \E tab \in TabTypes : SwitchTab(tab)
    \/ \E id \in NewId(pending, MaxPending) : ClickSubmit(id)
    \/ \E id \in NewId(pending, MaxPending) : ClickRetry(id)
    \/ \E id \in 1..MaxPending : RecommendResolves(id)
    \/ \E id \in 1..MaxPending, err \in PageFailures : RecommendRejects(id, err)

SpecRecommendPage == InitRecommendPage /\ [][NextRecommendPage]_vars

IsRecommendPage == page.name = "RecommendPage"

\* The result lists of the tabs other than tab.
OtherLists(tab) ==
    {page.recommendations : t \in {"quick"} \ {tab}}
        \cup {page.learningPath : t \in {"path"} \ {tab}}
        \cup {page.popularCourses : t \in {"popular"} \ {tab}}

\* ---------------------------------------------------------------------
\* C25  On the recommend page, for any interleaving of tab switches,
\* button clicks and response arrivals, the results shown belong to the
\* active tab: the result lists of the other two tabs are empty.
\* ---------------------------------------------------------------------
C25_ResultsOfActiveTab ==
    IsRecommendPage => \A list \in OtherLists(page.activeTab) : Len(list) = 0

\* ---------------------------------------------------------------------
\* C26  On the recommend page at most one request is in flight at any
\* time: while a request is pending loading is true, every submit button
\* is disabled and no retry button is offered, also after a tab switch;
\* and loading is false once the request has settled, whether it succeeded
\* or failed.
\* ---------------------------------------------------------------------
C26_OneRequestInFlight ==
    IsRecommendPage =>
        /\ Cardinality(pending) <= 1
        /\ pending # {} => (page.loading /\ SubmitDisabled /\ ~RetryOffered)
        /\ (result.by = "server" /\ result.status \in {"ok", "failed"})
              => ~page.loading

\* A request is pending after the tab was switched away from its tab.
C26_Witness ==
    /\ IsRecommendPage
    /\ result.stmt = "switchTab"
    /\ page.activeTab = "popular"
    /\ \E call \in pending : call.api = "getQuickRecommendations"
    /\ page.loading

====
